---- MODULE Spec2Model ----
(***************************************************************************)
(* Model of the rule-matching and price-derivation core of                 *)
(* conditions_checking.py: cost-name matching, Applies If parsing and      *)
(* evaluation, rate-lane extraction, weight-tier selection, price lookup   *)
(* and the per-row reconciliation loop check_conditions_and_add_reason.    *)
(*                                                                         *)
(* Strings are TLC strings handled character by character (SubSeq, Len,    *)
(* \o).  A table cell is the text pandas would print for it; the missing   *)
(* cell (NaN) is the text "nan" and Python's None is the text "None".      *)
(* Texts are single-line: the only white space is the blank.               *)
(***************************************************************************)
EXTENDS Integers, Sequences, FiniteSets, TLC

(***************************************************************************)
(* Python string primitives                                                *)
(***************************************************************************)
NaN == "nan"

None == "None"

UpperChars == "ABCDEFGHIJKLMNOPQRSTUVWXYZ"

LowerChars == "abcdefghijklmnopqrstuvwxyz"

DigitChars == "0123456789"

Ch(s, i) == SubSeq(s, i, i)

IsSpace(c) == c = " "

IsDigit(c) == \E i \in 1..10 : Ch(DigitChars, i) = c

LowerChar(c) ==
    IF \E i \in 1..26 : Ch(UpperChars, i) = c
    THEN Ch(LowerChars, CHOOSE i \in 1..26 : Ch(UpperChars, i) = c)
    ELSE c

RECURSIVE Lower(_)
Lower(s) == IF s = "" THEN "" ELSE LowerChar(Ch(s, 1)) \o Lower(SubSeq(s, 2, Len(s)))

RECURSIVE LStrip(_)
LStrip(s) == IF s # "" /\ IsSpace(Ch(s, 1)) THEN LStrip(SubSeq(s, 2, Len(s))) ELSE s

RECURSIVE RStrip(_)
RStrip(s) ==
    IF s # "" /\ IsSpace(Ch(s, Len(s))) THEN RStrip(SubSeq(s, 1, Len(s) - 1)) ELSE s

Strip(s) == LStrip(RStrip(s))

StartsWith(s, p) == Len(p) <= Len(s) /\ SubSeq(s, 1, Len(p)) = p

EndsWith(s, p) == Len(p) <= Len(s) /\ SubSeq(s, Len(s) - Len(p) + 1, Len(s)) = p

\* Python's `p in s` for strings
In(p, s) == \E i \in 1..(Len(s) - Len(p) + 1) : SubSeq(s, i, i + Len(p) - 1) = p

\* str.find, 1-based; 0 when absent
Find(s, p) ==
    IF In(p, s)
    THEN CHOOSE i \in 1..(Len(s) - Len(p) + 1) :
            /\ SubSeq(s, i, i + Len(p) - 1) = p
            /\ \A j \in 1..(i - 1) : SubSeq(s, j, j + Len(p) - 1) # p
    ELSE 0

\* pd.notna / pd.isna on a cell
isna(v) == v = NaN

notna(v) == v # NaN

\* Python truthiness of a cell: None and '' are falsy, NaN is truthy
Truthy(v) == v # None /\ v # ""

\* the element of a one-element set: Only({e(x) : x \in {v}}) is e with x naming v
Only(S) == CHOOSE x \in S : TRUE

\* str.replace for a single character
RECURSIVE ReplaceChar(_, _, _)
ReplaceChar(s, c, d) ==
    IF s = "" THEN ""
    ELSE (IF Ch(s, 1) = c THEN d ELSE Ch(s, 1)) \o ReplaceChar(SubSeq(s, 2, Len(s)), c, d)

\* the number of leading whitespace characters of s from position i on
RECURSIVE SpacesAt(_, _)
SpacesAt(s, i) == IF i <= Len(s) /\ IsSpace(Ch(s, i)) THEN 1 + SpacesAt(s, i + 1) ELSE 0

\* Python's repr of a list of strings: ['a', 'b']
RECURSIVE JoinQuoted(_)
JoinQuoted(vals) ==
    IF vals = <<>> THEN ""
    ELSE "'" \o Head(vals) \o "'"
         \o (IF Len(vals) > 1 THEN ", " ELSE "") \o JoinQuoted(Tail(vals))

ListRepr(vals) == "[" \o JoinQuoted(vals) \o "]"

\* ', '.join(items)
RECURSIVE JoinComma(_)
JoinComma(items) ==
    IF items = <<>> THEN ""
    ELSE Head(items) \o (IF Len(items) > 1 THEN ", " ELSE "") \o JoinComma(Tail(items))

(***************************************************************************)
(* Tables.  A DataFrame is its header and its rows; a row dict is the      *)
(* header with one row's cells, in column order.                           *)
(***************************************************************************)
DataFrame(columns, data) == [columns |-> columns, data |-> data]

NoneFrame == [columns |-> <<>>, data |-> <<>>, none |-> TRUE]

IsNoneFrame(df) == "none" \in DOMAIN df

\* `df is None or df.empty`
NoneOrEmpty(df) == IsNoneFrame(df) \/ df.data = <<>> \/ df.columns = <<>>

EmptyRow == [columns |-> <<>>, vals |-> <<>>]

RowDict(df, r) == [columns |-> df.columns, vals |-> df.data[r]]

\* index of the first column satisfying P, 0 when there is none
FirstCol(columns, P(_)) ==
    IF \E i \in 1..Len(columns) : P(columns[i])
    THEN CHOOSE i \in 1..Len(columns) :
            P(columns[i]) /\ \A j \in 1..(i - 1) : ~P(columns[j])
    ELSE 0

\* index of the last column satisfying P, 0 when there is none
LastCol(columns, P(_)) ==
    IF \E i \in 1..Len(columns) : P(columns[i])
    THEN CHOOSE i \in 1..Len(columns) :
            P(columns[i]) /\ \A j \in (i + 1)..Len(columns) : ~P(columns[j])
    ELSE 0

\* row.get(col, default) with col given by index (0: the column was not found)
Get(row, c, default) == IF c = 0 THEN default ELSE row.vals[c]

IsCostNameCol(col) == In("cost", Lower(col)) /\ In("name", Lower(col))

IsRateByCol(col) == In("rate", Lower(col)) /\ In("by", Lower(col))

IsAppliesIfCol(col) == In("applies", Lower(col)) /\ In("if", Lower(col))

(***************************************************************************)
(* Cost-name matching                                                      *)
(***************************************************************************)
\* re.sub(r'\s*\([^)]*\)\s*$', '', s).strip()
BaseName(s) ==
    LET t == RStrip(s)
        Cut(Opens) ==
            IF Opens = {} THEN Strip(s)
            ELSE Strip(SubSeq(t, 1, (CHOOSE x \in Opens : \A y \in Opens : x <= y) - 1))
    IN  Cut(IF Len(t) > 0 /\ Ch(t, Len(t)) = ")"
            THEN {q \in 1..(Len(t) - 1) :
                    /\ Ch(t, q) = "("
                    /\ \A j \in (q + 1)..(Len(t) - 1) : Ch(t, j) # ")"}
            ELSE {})

\* the matching the code rules out: plain substring containment either way
is_match_by_containment(cost_name_lower, cost_type_clean) ==
    \/ In(cost_type_clean, cost_name_lower)
    \/ In(cost_name_lower, cost_type_clean)

\* is_match of get_all_matching_cost_conditions / get_all_matching_accessorial_costs
is_match(cost_name_lower, cost_type_clean) ==
    \/ cost_name_lower = cost_type_clean
    \/ BaseName(cost_name_lower) = BaseName(cost_type_clean)
    \/ StartsWith(cost_name_lower, cost_type_clean)
    \/ StartsWith(cost_type_clean, cost_name_lower)

\* the elif chain of get_all_matching_cost_conditions: the last column of each role
MatchingCostNameCol(columns) == LastCol(columns, IsCostNameCol)

MatchingRateByCol(columns) ==
    LET P(col) == ~IsCostNameCol(col) /\ IsRateByCol(col) IN LastCol(columns, P)

MatchingAppliesIfCol(columns) ==
    LET P(col) == ~IsCostNameCol(col) /\ ~IsRateByCol(col) /\ IsAppliesIfCol(col)
    IN  LastCol(columns, P)

get_all_matching_cost_conditions(cost_type, df_cost_conditions) ==
    LET columns == df_cost_conditions.columns
        \* (cost_name, rate_by, applies_if) of a row
        Entry(row) ==
            <<Strip(Get(row, MatchingCostNameCol(columns), "")),
              Get(row, MatchingRateByCol(columns), ""),
              Get(row, MatchingAppliesIfCol(columns), "")>>
        Named(m) == is_match(Lower(m[1]), Lower(Strip(cost_type)))
    IN  IF NoneOrEmpty(df_cost_conditions) THEN <<>>
        ELSE IF MatchingCostNameCol(columns) = 0 THEN <<>>
        ELSE SelectSeq([i \in 1..Len(df_cost_conditions.data) |->
                           Entry(RowDict(df_cost_conditions, i))], Named)

\* get_cost_conditions_for_cost_type: exact match first, then substring containment
get_cost_conditions_for_cost_type(cost_type, df_cost_conditions) ==
    LET columns == df_cost_conditions.columns
        n == Len(df_cost_conditions.data)
        Named(name, cost_type_clean, exact) ==
            IF exact THEN name = cost_type_clean
            ELSE In(cost_type_clean, name) \/ In(name, cost_type_clean)
        \* the rows the exact pass (x[1] = 1) and the substring pass (x[1] = 2) accept
        Hit(x) ==
            Named(Lower(Strip(Get(RowDict(df_cost_conditions, x[2]),
                                  FirstCol(columns, IsCostNameCol), ""))),
                  Lower(Strip(cost_type)), x[1] = 1)
        Conditions(row) ==
            <<Get(row, FirstCol(columns, IsRateByCol), ""),
              Get(row, FirstCol(columns, IsAppliesIfCol), "")>>
        First(Hits) ==
            IF Hits = {} THEN <<None, None>>
            ELSE Conditions(RowDict(df_cost_conditions,
                     (CHOOSE x \in Hits :
                        \A y \in Hits : x[1] < y[1] \/ (x[1] = y[1] /\ x[2] <= y[2]))[2]))
    IN  IF NoneOrEmpty(df_cost_conditions) THEN <<None, None>>
        ELSE IF FirstCol(columns, IsCostNameCol) = 0 THEN <<None, None>>
        ELSE First({x \in (1..2) \X (1..n) : Hit(x)})

(***************************************************************************)
(* Condition Parser: parse_applies_if_condition                            *)
(***************************************************************************)
InvoicedMaxLen == 50

\* the length of the run of digits of s from position i on
RECURSIVE DigitRun(_, _)
DigitRun(s, i) == IF i <= Len(s) /\ IsDigit(Ch(s, i)) THEN 1 + DigitRun(s, i + 1) ELSE 0

\* re.split(r'\d+\.\s*', text)
RECURSIVE SplitNumbered(_)
SplitNumbered(s) ==
    LET Cut(x) ==
            <<SubSeq(s, 1, x[1] - 1)>>
            \o SplitNumbered(SubSeq(s, x[2] + 1 + SpacesAt(s, x[2] + 1), Len(s)))
        First(Starts) ==
            IF Starts = {} THEN <<s>>
            ELSE Cut(CHOOSE x \in Starts : \A y \in Starts : x[1] <= y[1])
    IN  First({x \in {<<i, i + DigitRun(s, i)>> : i \in 1..Len(s)} :
                 x[2] > x[1] /\ x[2] <= Len(s) /\ Ch(s, x[2]) = "."})

\* where the text after `\s+w1\s+w2...` starts when s matches it from position i; 0 if not
RECURSIVE AfterWords(_, _, _)
AfterWords(s, i, words) ==
    IF words = <<>> THEN i
    ELSE LET n == SpacesAt(s, i)
             j == i + n
             w == Head(words)
         IN  IF n >= 1 /\ j + Len(w) - 1 <= Len(s) /\ Lower(SubSeq(s, j, j + Len(w) - 1)) = w
             THEN AfterWords(s, j + Len(w), Tail(words))
             ELSE 0

\* re.split(r'\s+and\s+', part, flags=re.IGNORECASE)
RECURSIVE SplitAnd(_)
SplitAnd(s) ==
    LET Cut(x) ==
            <<SubSeq(s, 1, x[1] - 1)>> \o SplitAnd(SubSeq(s, x[2] + SpacesAt(s, x[2]), Len(s)))
        First(Starts) ==
            IF Starts = {} THEN <<s>>
            ELSE Cut(CHOOSE x \in Starts : \A y \in Starts : x[1] <= y[1])
    IN  First({x \in {<<i, AfterWords(s, i, <<"and">>)>> : i \in 1..Len(s)} :
                 x[2] # 0 /\ SpacesAt(s, x[2]) >= 1})

\* re.sub(r'\s+in all items\s*$', '', part, flags=re.IGNORECASE) on a stripped part
RemoveInAllItems(part) ==
    LET n == Len(part)
        m == Len("in all items")
    IN  IF n > m /\ EndsWith(Lower(part), "in all items") /\ IsSpace(Ch(part, n - m))
        THEN RStrip(SubSeq(part, 1, n - m))
        ELSE part

\* re.findall(r"'([^']*)'", values_str)
RECURSIVE FindAllQuoted(_)
FindAllQuoted(t) ==
    LET Closing(rest, j) ==
            IF j = 0 THEN <<>>
            ELSE <<SubSeq(rest, 1, j - 1)>> \o FindAllQuoted(SubSeq(rest, j + 1, Len(rest)))
        Opening(rest) == Closing(rest, Find(rest, "'"))
    IN  IF Find(t, "'") = 0 THEN <<>> ELSE Opening(SubSeq(t, Find(t, "'") + 1, Len(t)))

\* an optional "s" after a keyword ending at position p - 1
SkipS(s, p) == IF p # 0 /\ p <= Len(s) /\ Lower(Ch(s, p)) = "s" THEN p + 1 ELSE p

\* Where the values of a comparison start when sub_part matches the pattern of
\* `kind` with a column name of length k; 0 when it does not match.
PatternAt(sub_part, kind, k) ==
    LET n == Len(sub_part)
        rest(p) == IF p # 0 /\ p <= n THEN p ELSE 0
        spaced(p) == IF p # 0 /\ SpacesAt(sub_part, p) >= 1 THEN p ELSE 0
    IN  CASE kind = "does_not_equal" ->
               rest(AfterWords(sub_part, k + 1, <<"does", "not", "equal">>))
          [] kind = "does_not_contain" ->
               rest(AfterWords(sub_part, k + 1, <<"does", "not", "contain">>))
          [] kind = "equals" ->
               rest(AfterWords(sub_part, k + 1, <<"equal">>))
          [] kind = "starts_with" ->
               LET p == AfterWords(sub_part, k + 1, <<"start">>)
               IN  IF p = 0 THEN 0
                   ELSE spaced(AfterWords(sub_part, SkipS(sub_part, p), <<"with">>))
          [] kind = "contains" ->
               spaced(SkipS(sub_part, AfterWords(sub_part, k + 1, <<"contain">>)))

\* the lazy (.+?) of re.match: the shortest column text after which the pattern matches
PatternMatch(sub_part, kind) ==
    LET Least(Ks) == IF Ks = {} THEN <<0, 0>>
                     ELSE CHOOSE k \in Ks : \A y \in Ks : k[1] <= y[1]
    IN  Least({x \in {<<k, PatternAt(sub_part, kind, k)>> : k \in 1..Len(sub_part)} :
                 x[2] # 0})

\* the priority order in which parse_applies_if_condition tries its patterns
\* the patterns with equals and contains tried before their negations
PatternOrderPositiveFirst ==
    <<"equals", "starts_with", "contains", "does_not_equal", "does_not_contain">>

PatternOrder == <<"does_not_equal", "does_not_contain", "equals", "starts_with", "contains">>

\* one sub-clause: the first pattern that matches decides; no quoted value, no condition
ParseSubPart(sub_part) ==
    LET Condition(h, values) ==
            IF values = <<>> THEN <<>>
            ELSE << [column_name |-> Strip(SubSeq(sub_part, 1, h.match[1])),
                     condition_type |-> h.kind, expected_values |-> values] >>
        First(Hits) ==
            IF Hits = {} THEN <<>>
            ELSE Only({Condition(h, FindAllQuoted(SubSeq(sub_part, h.match[2],
                                                         Len(sub_part)))) :
                          h \in {CHOOSE h \in Hits : \A y \in Hits : h.x <= y.x}})
    IN  First({h \in {[x |-> x, kind |-> PatternOrder[x],
                       match |-> PatternMatch(sub_part, PatternOrder[x])] :
                          x \in 1..Len(PatternOrder)} : h.match[1] # 0})

RECURSIVE ParseSubParts(_)
ParseSubParts(sub_parts) ==
    IF sub_parts = <<>> THEN <<>>
    ELSE (IF Strip(Head(sub_parts)) = "" THEN <<>> ELSE ParseSubPart(Strip(Head(sub_parts))))
         \o ParseSubParts(Tail(sub_parts))

RECURSIVE ParseParts(_)
ParseParts(parts) ==
    IF parts = <<>> THEN <<>>
    ELSE (IF Strip(Head(parts)) = "" THEN <<>>
          ELSE ParseSubParts(SplitAnd(RemoveInAllItems(Strip(Head(parts))))))
         \o ParseParts(Tail(parts))

\* the parser with "no condition" recognised only as the whole text
parse_exact_no_condition(applies_if_text) ==
    LET Invoiced(text, lower) ==
            /\ In("applies if invoiced", lower) /\ In("carrier", lower)
            /\ Len(text) < InvoicedMaxLen
            /\ ~In("equals", lower) /\ ~In("starts", lower) /\ ~In("contains", lower)
        Nothing(text, lower) ==
            text = "" \/ lower = "no condition" \/ Invoiced(text, lower)
    IN  IF ~Truthy(applies_if_text) \/ isna(applies_if_text) THEN <<>>
        ELSE IF Nothing(Strip(applies_if_text), Lower(Strip(applies_if_text))) THEN <<>>
        ELSE ParseParts(SplitNumbered(Strip(applies_if_text)))

parse_applies_if_condition(applies_if_text) ==
    LET \* "Applies if invoiced by Carrier": short, and without a comparison word
        Invoiced(text, lower) ==
            /\ In("applies if invoiced", lower) /\ In("carrier", lower)
            /\ Len(text) < InvoicedMaxLen
            /\ ~In("equals", lower) /\ ~In("starts", lower) /\ ~In("contains", lower)
        Nothing(text, lower) ==
            text = "" \/ In("no condition", lower) \/ Invoiced(text, lower)
    IN  IF ~Truthy(applies_if_text) \/ isna(applies_if_text) THEN <<>>
        ELSE IF Nothing(Strip(applies_if_text), Lower(Strip(applies_if_text))) THEN <<>>
        ELSE ParseParts(SplitNumbered(Strip(applies_if_text)))

(***************************************************************************)
(* Condition Evaluator: check_applies_if_condition                         *)
(***************************************************************************)
\* column_mappings: business terms and the shipment columns that carry them
column_mappings(key) ==
    CASE key = "origin country" ->
           <<"SHIP_COUNTRY", "ship_country", "Origin Country", "origin_country">>
      [] key = "destination country" ->
           <<"CUST_COUNTRY", "cust_country", "Destination Country", "destination_country",
             "dest_country">>
      [] key = "origin_country" -> <<"SHIP_COUNTRY", "ship_country", "Origin Country">>
      [] key = "destination_country" ->
           <<"CUST_COUNTRY", "cust_country", "Destination Country">>
      [] key = "ship country" -> <<"SHIP_COUNTRY", "ship_country">>
      [] key = "cust country" -> <<"CUST_COUNTRY", "cust_country">>
      [] OTHER -> <<>>

\* .lower().replace(' ', '_').replace('-', '_')
Underscored(name) == ReplaceChar(ReplaceChar(Lower(name), " ", "_"), "-", "_")

\* .lower().replace(' ', '').replace('_', '')
NoSpace(name) == ReplaceChar(ReplaceChar(Lower(name), " ", ""), "_", "")

\* The shipment-row key a condition's column name resolves to (its index), 0 if none:
\* the synonym table first, then the first key, in row order, that matches exactly
\* or by substring containment in either direction.
ResolveColumn(column_name, row) ==
    LET cols == row.columns
        standard(col) ==
            \/ Underscored(col) = Underscored(column_name)
            \/ NoSpace(col) = NoSpace(column_name)
            \/ In(Lower(column_name), Lower(col))
            \/ In(Lower(col), Lower(column_name))
        \* the first mapped name, in list order, that a key of the row equals
        First(Hits, otherwise) ==
            IF Hits = {} THEN otherwise
            ELSE (CHOOSE x \in Hits :
                    \A y \in Hits : x[1] < y[1] \/ (x[1] = y[1] /\ x[2] <= y[2]))[2]
    IN  Only({First({x \in (1..Len(mapped_columns)) \X (1..Len(cols)) :
                       \/ Lower(cols[x[2]]) = Lower(mapped_columns[x[1]])
                       \/ cols[x[2]] = mapped_columns[x[1]]},
                    FirstCol(cols, standard)) :
                 mapped_columns \in
                    {IF column_mappings(Lower(column_name)) # <<>>
                     THEN column_mappings(Lower(column_name))
                     ELSE column_mappings(Underscored(column_name))}})

\* the comparison with the cell as written, only the expected values lowered
ConditionFailureCellCase(kind, actual_str, expected_values) ==
    LET n == Len(expected_values)
        ev(i) == Lower(expected_values[i])
    IN  IF kind = "equals" /\ ~(\E i \in 1..n : actual_str = ev(i))
        THEN "expected one of "
        ELSE IF kind = "does_not_equal" /\ ~(\A i \in 1..n : actual_str # ev(i))
        THEN "should not be one of "
        ELSE IF kind = "starts_with" /\ ~(\E i \in 1..n : StartsWith(actual_str, ev(i)))
        THEN "should start with one of "
        ELSE IF kind = "contains" /\ ~(\E i \in 1..n : In(ev(i), actual_str))
        THEN "should contain one of "
        ELSE IF kind = "does_not_contain" /\ ~(\A i \in 1..n : ~In(ev(i), actual_str))
        THEN "should not contain any of "
        ELSE None

\* the comparison with does_not_equal and does_not_contain passing as soon as
\* one expected value differs
ConditionFailureAnyDiffers(kind, actual_str, expected_values) ==
    LET n == Len(expected_values)
        actual_str_lower == Lower(actual_str)
        ev(i) == Lower(expected_values[i])
    IN  IF kind = "equals" /\ ~(\E i \in 1..n : actual_str_lower = ev(i))
        THEN "expected one of "
        ELSE IF kind = "does_not_equal" /\ ~(\E i \in 1..n : actual_str_lower # ev(i))
        THEN "should not be one of "
        ELSE IF kind = "starts_with"
                /\ ~(\E i \in 1..n : StartsWith(actual_str_lower, ev(i)))
        THEN "should start with one of "
        ELSE IF kind = "contains" /\ ~(\E i \in 1..n : In(ev(i), actual_str_lower))
        THEN "should contain one of "
        ELSE IF kind = "does_not_contain"
                /\ ~(\E i \in 1..n : ~In(ev(i), actual_str_lower))
        THEN "should not contain any of "
        ELSE None

\* the comparison of one condition with the cell's text: None when it passes, else
\* how the reason goes on after "<column> is '<cell>', "
ConditionFailure(kind, actual_str, expected_values) ==
    LET n == Len(expected_values)
        actual_str_lower == Lower(actual_str)
        ev(i) == Lower(expected_values[i])
    IN  IF kind = "equals" /\ ~(\E i \in 1..n : actual_str_lower = ev(i))
        THEN "expected one of "
        ELSE IF kind = "does_not_equal" /\ ~(\A i \in 1..n : actual_str_lower # ev(i))
        THEN "should not be one of "
        ELSE IF kind = "starts_with"
                /\ ~(\E i \in 1..n : StartsWith(actual_str_lower, ev(i)))
        THEN "should start with one of "
        ELSE IF kind = "contains" /\ ~(\E i \in 1..n : In(ev(i), actual_str_lower))
        THEN "should contain one of "
        ELSE IF kind = "does_not_contain"
                /\ ~(\A i \in 1..n : ~In(ev(i), actual_str_lower))
        THEN "should not contain any of "
        ELSE None

\* one condition against the resolved cell: None when it passes, else the reason
CheckOne(cond, etof_number, row) ==
    LET column_name == cond.column_name
        expected_values == cond.expected_values
        Actual(actual_str) ==
            Only({IF failure = None THEN None
                  ELSE "Applies If not met: " \o column_name \o " is '" \o actual_str
                       \o "', " \o failure :
                     failure \in {ConditionFailure(cond.condition_type, actual_str,
                                                   expected_values)}})
        Resolved(c, failed) ==
            IF c = 0
            THEN "Column '" \o column_name \o "' not found in shipment data for ETOF "
                 \o etof_number
            ELSE IF failed = None THEN None
            ELSE failed \o ListRepr(expected_values)
    IN  Only({Resolved(c, IF c = 0 THEN None
                          ELSE Actual(IF row.vals[c] = None \/ isna(row.vals[c]) THEN ""
                                      ELSE Strip(row.vals[c]))) :
                 c \in {ResolveColumn(column_name, row)}})

\* the evaluator that goes through the whole list and keeps the last failure
check_reporting_last(conditions, etof_number, df_lc_etof_row) ==
    LET Last(Failing) ==
            IF Failing = {} THEN [is_met |-> TRUE, reason |-> None]
            ELSE [is_met |-> FALSE,
                  reason |-> (CHOOSE x \in Failing : \A y \in Failing : x[1] >= y[1])[2]]
    IN  Last({x \in {<<i, CheckOne(conditions[i], etof_number, df_lc_etof_row)>> :
                       i \in 1..Len(conditions)} : x[2] # None})

\* (is_met, reason_if_not_met): the first failing condition, in list order, decides
check_applies_if_condition(conditions, etof_number, df_lc_etof_row) ==
    LET First(Failing) ==
            IF Failing = {} THEN [is_met |-> TRUE, reason |-> None]
            ELSE [is_met |-> FALSE,
                  reason |-> (CHOOSE x \in Failing : \A y \in Failing : x[1] <= y[1])[2]]
    IN  First({x \in {<<i, CheckOne(conditions[i], etof_number, df_lc_etof_row)>> :
                        i \in 1..Len(conditions)} : x[2] # None})

(***************************************************************************)
(* Cost Matcher: find_best_matching_cost                                   *)
(***************************************************************************)
\* max(matches, key=lambda x: len(x[0])): the first of the longest-named
LongestNamed(matches) ==
    matches[CHOOSE i \in 1..Len(matches) :
              /\ \A j \in 1..Len(matches) : Len(matches[j][1]) <= Len(matches[i][1])
              /\ \A j \in 1..(i - 1) : Len(matches[j][1]) < Len(matches[i][1])]

\* a fallback that ignores the names: the first of the candidates
FirstNamed(matches) == matches[1]

\* min(matches, key=lambda x: len(x[0])): the first of the shortest-named
ShortestNamed(matches) ==
    matches[CHOOSE i \in 1..Len(matches) :
              /\ \A j \in 1..Len(matches) : Len(matches[j][1]) >= Len(matches[i][1])
              /\ \A j \in 1..(i - 1) : Len(matches[j][1]) > Len(matches[i][1])]

\* the candidates whose parsed conditions the shipment row satisfies
ConditionsMet(m, etof_row_data) ==
    \E conditions \in {parse_applies_if_condition(m[3])} :
        /\ conditions # <<>>
        /\ etof_row_data.columns # <<>>
        /\ check_applies_if_condition(conditions, "check", etof_row_data).is_met

\* the candidates kept as fallback: nothing to parse, or no shipment row to check
WithoutConditions(m, etof_row_data) ==
    \/ parse_applies_if_condition(m[3]) = <<>>
    \/ etof_row_data.columns = <<>>

find_best_matching_cost(cost_type, df_cost_conditions, etof_row_data) ==
    LET Best(all_matches, matches_with_conditions_met, matches_without_conditions) ==
            IF all_matches = <<>> THEN <<None, None, None>>
            ELSE IF Len(all_matches) = 1 THEN all_matches[1]
            ELSE IF matches_with_conditions_met # <<>>
            THEN LongestNamed(matches_with_conditions_met)
            ELSE IF matches_without_conditions # <<>>
            THEN ShortestNamed(matches_without_conditions)
            ELSE all_matches[1]
    IN  Only({Best(all_matches,
                   SelectSeq(all_matches, LAMBDA m : ConditionsMet(m, etof_row_data)),
                   SelectSeq(all_matches, LAMBDA m : WithoutConditions(m, etof_row_data))) :
                 all_matches \in
                    {get_all_matching_cost_conditions(cost_type, df_cost_conditions)}})

(***************************************************************************)
(* Numbers.  A number is an integer count of hundredths (Scale); float()   *)
(* reads a cell's text and str()/format() print it back.  Texts carry at   *)
(* most two decimals.                                                      *)
(***************************************************************************)
Scale == 10 * 10

RECURSIVE DigitsValue(_)
DigitsValue(d) ==
    IF d = "" THEN 0
    ELSE 10 * DigitsValue(SubSeq(d, 1, Len(d) - 1))
         + ((CHOOSE i \in 1..10 : Ch(DigitChars, i) = Ch(d, Len(d))) - 1)

RECURSIVE NatStr(_)
NatStr(n) == IF n < 10 THEN Ch(DigitChars, n + 1)
             ELSE NatStr(n \div 10) \o Ch(DigitChars, (n % 10) + 1)

\* the hundredths a fraction's digits stand for (two digits kept)
FracValue(f) ==
    IF Len(f) = 0 THEN 0
    ELSE IF Len(f) = 1 THEN 10 * DigitsValue(f)
    ELSE DigitsValue(SubSeq(f, 1, 2))

\* \d+(?:\.\d+)? at position i of s: the matched length (0: no match) and the value
NumAt(s, i) ==
    LET Number(a, b) ==
            [len |-> IF a = 0 THEN 0 ELSE IF b >= 1 THEN a + 1 + b ELSE a,
             val |-> IF a = 0 THEN 0
                     ELSE Scale * DigitsValue(SubSeq(s, i, i + a - 1))
                          + (IF b >= 1 THEN FracValue(SubSeq(s, i + a + 1, i + a + b))
                             ELSE 0)]
    IN  Only({Number(a, IF a >= 1 /\ i + a <= Len(s) /\ Ch(s, i + a) = "."
                        THEN DigitRun(s, i + a + 1) ELSE 0) : a \in {DigitRun(s, i)}})

\* float(x): ok (a number v), nan, or a ValueError / TypeError (ok = FALSE)
Float(x) ==
    LET Value(neg, u, m) ==
            IF Lower(u) = "nan" THEN [ok |-> TRUE, nan |-> TRUE, v |-> 0]
            ELSE IF u # "" /\ (m.len = Len(u) \/ (m.len >= 1 /\ m.len + 1 = Len(u)
                                                  /\ EndsWith(u, ".")))
            THEN [ok |-> TRUE, nan |-> FALSE, v |-> IF neg THEN 0 - m.val ELSE m.val]
            ELSE [ok |-> FALSE, nan |-> FALSE, v |-> 0]
        Unsigned(t) == IF StartsWith(t, "-") THEN SubSeq(t, 2, Len(t)) ELSE t
    IN  IF x = None THEN [ok |-> FALSE, nan |-> FALSE, v |-> 0]
        ELSE Only({Value(StartsWith(t, "-"), Unsigned(t), NumAt(Unsigned(t), 1)) :
                      t \in {Strip(x)}})

\* two digits of hundredths
Cents(n) == NatStr((n % Scale) \div 10) \o NatStr(n % 10)

\* format(v, '.2f')
Fmt2(v) == (IF v < 0 THEN "-" ELSE "")
           \o LET a == IF v < 0 THEN 0 - v ELSE v IN NatStr(a \div Scale) \o "." \o Cents(a)

\* str(v) of a Python float: 200.0, 200.5, 200.01
FloatStr(v) ==
    LET a == IF v < 0 THEN 0 - v ELSE v
    IN  (IF v < 0 THEN "-" ELSE "") \o NatStr(a \div Scale) \o "."
        \o (IF a % 10 = 0 THEN NatStr((a % Scale) \div 10) ELSE Cents(a))

\* int(v) if v == int(v) else v, printed
IntOrFloatStr(v) == IF v % Scale = 0 THEN NatStr(v \div Scale) ELSE FloatStr(v)

\* price * multiplier, rounded to hundredths
Times(a, b) == (a * b + (Scale \div 2)) \div Scale

(***************************************************************************)
(* Rate lanes: extract_rate_lane                                           *)
(***************************************************************************)
IsLaneChar(c) == IsDigit(c) \/ c = "," \/ IsSpace(c)

RECURSIVE LaneRun(_, _)
LaneRun(s, i) == IF i <= Len(s) /\ IsLaneChar(Ch(s, i)) THEN 1 + LaneRun(s, i + 1) ELSE 0

\* s.split(sep) for a one-character separator
RECURSIVE Split(_, _)
Split(s, sep) ==
    LET Cut(i) == IF i = 0 THEN <<s>>
                  ELSE <<SubSeq(s, 1, i - 1)>> \o Split(SubSeq(s, i + 1, Len(s)), sep)
    IN  Cut(Find(s, sep))

RECURSIVE StripNonEmpty(_)
StripNonEmpty(parts) ==
    IF parts = <<>> THEN <<>>
    ELSE (IF Strip(Head(parts)) = "" THEN <<>> ELSE <<Strip(Head(parts))>>)
         \o StripNonEmpty(Tail(parts))

\* Where group 1 of r'Rate\s+lanes?:\s*([\d,\s]+)' starts when the pattern matches
\* at position i (0: no match); the group runs to the end of the lane characters.
LaneGroupAt(s, i) ==
    LET Group(p, q) ==
            IF p # 0 /\ q <= Len(s) /\ Ch(s, q) = ":" /\ LaneRun(s, q + 1) >= 1
            THEN q + 1 ELSE 0
        Lane(p) == Group(p, SkipS(s, p))
    IN  Lane(IF i + 3 <= Len(s) /\ Lower(SubSeq(s, i, i + 3)) = "rate"
             THEN AfterWords(s, i + 4, <<"lane">>) ELSE 0)

extract_rate_lane(comment) ==
    LET Lanes(g) ==
            StripNonEmpty(Split(SubSeq(comment, g, g + LaneRun(comment, g) - 1), ","))
        First(Starts) ==
            IF Starts = {} THEN <<>>
            ELSE Lanes((CHOOSE x \in Starts : \A y \in Starts : x[1] <= y[1])[2])
    IN  IF ~Truthy(comment) \/ isna(comment) THEN <<>>
        ELSE First({x \in {<<i, LaneGroupAt(comment, i)>> : i \in 1..Len(comment)} :
                      x[2] # 0})

(***************************************************************************)
(* Price resolver: weight tiers                                            *)
(***************************************************************************)
NoTier == [idx |-> 0, has_lower |-> FALSE, lower |-> 0, upper |-> 0]

\* (lower, upper) of a header like "Price Flat >200 <=500"; idx 1 marks a range
parse_weight_range_from_column(col_name) ==
    LET Least(S) == CHOOSE x \in S : \A y \in S : x[1] <= y[1]
        \* where the number of r'<=?\s*(\d+(?:\.\d+)?)' starts at a "<" (0: none)
        Digits(col_str, k) == IF DigitRun(col_str, k) >= 1 THEN k ELSE 0
        UpAt(col_str, i) ==
            IF Ch(col_str, i) # "<" THEN 0
            ELSE IF i + 1 <= Len(col_str) /\ Ch(col_str, i + 1) = "="
            THEN Digits(col_str, i + 2 + SpacesAt(col_str, i + 2))
            ELSE Digits(col_str, i + 1 + SpacesAt(col_str, i + 1))
        Bounds(col_str, Lows, Ups) ==
            IF Ups = {} THEN NoTier
            ELSE [idx |-> 1,
                  has_lower |-> Lows # {},
                  lower |-> IF Lows # {} THEN Least(Lows)[2] ELSE 0,
                  upper |-> Least(Ups)[2]]
    IN  IF ~Truthy(col_name) \/ ~In("<", Lower(col_name)) THEN NoTier
        ELSE Only({Bounds(col_str,
                          {<<i, NumAt(col_str, i + 1).val>> :
                              i \in {k \in 1..Len(col_str) :
                                       /\ Ch(col_str, k) = ">"
                                       /\ DigitRun(col_str, k + 1) >= 1}},
                          {<<i, NumAt(col_str, UpAt(col_str, i)).val>> :
                              i \in {k \in 1..Len(col_str) : UpAt(col_str, k) # 0}}) :
                      col_str \in {Lower(col_name)}})

TierWindow == 10

RECURSIVE TierScan(_, _, _, _)
TierScan(columns_list, i, last, price_type) ==
    LET Step(col_name, t, rest) ==
            IF price_type = "flat" /\ ~In("flat", col_name) THEN rest
            ELSE IF price_type = "per_unit" /\ ~In("per unit", col_name) THEN rest
            ELSE IF t.idx # 0 THEN <<[t EXCEPT !.idx = i]>> \o rest
            ELSE IF price_type = "flat" /\ ~In("min", col_name) /\ ~In("max", col_name)
            THEN <<>>
            ELSE IF price_type = "per_unit" THEN <<>>
            ELSE rest
    IN  IF i > last THEN <<>>
        ELSE Step(IF Truthy(columns_list[i]) THEN Lower(columns_list[i]) ELSE "",
                  parse_weight_range_from_column(columns_list[i]),
                  TierScan(columns_list, i + 1, last, price_type))

Min(a, b) == IF a <= b THEN a ELSE b

find_weight_tiered_price_columns(columns_list, cost_col_idx, price_type) ==
    TierScan(columns_list, cost_col_idx + 1,
             Min(cost_col_idx + TierWindow - 1, Len(columns_list)), price_type)

\* sorted(tiered_columns, key=lambda x: x[2]): stable, ascending upper bound
RECURSIVE SortByUpper(_)
SortByUpper(tiers) ==
    IF tiers = <<>> THEN <<>>
    ELSE LET k == CHOOSE i \in 1..Len(tiers) :
                     /\ \A j \in 1..Len(tiers) : tiers[i].upper <= tiers[j].upper
                     /\ \A j \in 1..(i - 1) : tiers[j].upper # tiers[i].upper
         IN  <<tiers[k]>>
             \o SortByUpper(SubSeq(tiers, 1, k - 1) \o SubSeq(tiers, k + 1, Len(tiers)))

\* a tier read with its upper bound left out
InTierBelowUpper(t, weight) == IF t.has_lower THEN t.lower < weight /\ weight < t.upper
                               ELSE weight < t.upper

InTier(t, weight) == IF t.has_lower THEN t.lower < weight /\ weight <= t.upper
                     ELSE weight <= t.upper

RangeDesc(t) == (IF t.has_lower THEN ">" \o IntOrFloatStr(t.lower) \o " " ELSE "")
                \o "<=" \o IntOrFloatStr(t.upper)

\* (col_idx, range_desc); col_idx 0 stands for None
select_price_column_by_weight(tiered_columns, charge_weight) ==
    LET none == [col_idx |-> 0, range_desc |-> None]
        Pick(w, sorted_tiers, Hits, max_upper) ==
            IF ~w.ok \/ w.nan THEN none
            ELSE IF Hits # {}
            THEN Only({[col_idx |-> t.idx, range_desc |-> RangeDesc(t)] :
                         t \in {sorted_tiers[CHOOSE i \in Hits : \A j \in Hits : i <= j]}})
            ELSE IF w.v > max_upper
            THEN [col_idx |-> 0, range_desc |-> "exceeds max tier " \o FloatStr(max_upper)]
            ELSE none
    IN  IF tiered_columns = <<>> \/ charge_weight = None THEN none
        ELSE Only({Pick(w, sorted_tiers,
                        {i \in 1..Len(sorted_tiers) : w.ok /\ InTier(sorted_tiers[i], w.v)},
                        sorted_tiers[Len(sorted_tiers)].upper) :
                      w \in {Float(charge_weight)},
                      sorted_tiers \in {SortByUpper(tiered_columns)}})

(***************************************************************************)
(* Price resolver: find_cost_price_in_rate_data                            *)
(***************************************************************************)
PerUnitWindow == 5

MinWindow == 5

MaxWindow == 6

\* index of the first element of 1..last from `from` on that satisfies P; 0 if none
FirstIdx(from, last, P(_)) ==
    LET Least(S) == IF S = {} THEN 0 ELSE CHOOSE i \in S : \A j \in S : i <= j
    IN  Least({i \in from..last : P(i)})

\* the four strategies that locate the cost's column in the rate table
CostColumn(columns_list, cost_type) ==
    LET \* strategy 1 exact, 2 column starts with the cost type, 3 the cost type starts
        \* with the column, 4 equal base names; each strategy scans every column
        Hit(s, col, cost_type_lower) ==
            CASE s = 1 -> col = cost_type_lower
              [] s = 2 -> StartsWith(col, cost_type_lower)
              [] s = 3 -> StartsWith(cost_type_lower, col)
              [] OTHER -> BaseName(col) = BaseName(cost_type_lower)
        First(Hits) ==
            IF Hits = {} THEN 0
            ELSE (CHOOSE x \in Hits :
                    \A y \in Hits : x[1] < y[1] \/ (x[1] = y[1] /\ x[2] <= y[2]))[2]
    IN  First({x \in (1..4) \X (1..Len(columns_list)) :
                 /\ Truthy(columns_list[x[2]])
                 /\ Hit(x[1], Lower(Strip(columns_list[x[2]])), Lower(Strip(cost_type)))})

PriceResult(price, col, reason) == [price |-> price, col |-> col, reason |-> reason]

\* The price column of a lookup: idx 0 with a reason (or None) when there is none.
PriceColumn(columns_list, cost_col_idx, cost_type, price_type, charge_weight) ==
    LET n == Len(columns_list)
        name(i) == Lower(columns_list[i])
        At(i) == [idx |-> i, reason |-> None]
        \* the tier the weight selects among tiered columns, a reason when the weight
        \* is beyond the last tier, and `otherwise` when there are no tiers to use
        ByWeight(tiered, sel, otherwise) ==
            IF tiered # <<>> /\ charge_weight # None /\ sel.col_idx # 0
            THEN At(sel.col_idx)
            ELSE IF /\ tiered # <<>> /\ charge_weight # None
                    /\ Truthy(sel.range_desc) /\ In("exceeds", sel.range_desc)
            THEN [idx |-> 0,
                  reason |-> "CHARGE_WEIGHT " \o charge_weight \o " " \o sel.range_desc
                             \o " for cost '" \o cost_type \o "'"]
            ELSE otherwise
        PerUnitColumn(tier, regular) ==
            ByWeight(tier["per_unit"][1], tier["per_unit"][2],
                     IF regular # 0 THEN At(regular)
                     ELSE ByWeight(tier["flat"][1], tier["flat"][2],
                                   [idx |-> 0,
                                    reason |-> "'Price per unit' column not found for cost '"
                                               \o cost_type \o "'"]))
        FlatColumn(tier) ==
            ByWeight(tier["flat"][1], tier["flat"][2],
                     IF cost_col_idx + 1 > n
                     THEN [idx |-> 0,
                           reason |-> "No price column found after cost '"
                                      \o cost_type \o "'"]
                     ELSE At(cost_col_idx + 1))
    IN  \* tier[type]: the tiered columns of the type and what the weight selects there
        Only({CASE price_type = "per_unit" ->
                     PerUnitColumn(tier,
                                   FirstIdx(cost_col_idx + 1,
                                            Min(cost_col_idx + PerUnitWindow - 1, n),
                                            LAMBDA i : /\ \/ In("per unit", name(i))
                                                          \/ In("price per", name(i))
                                                       /\ ~In("<", name(i))
                                                       /\ ~In(">", name(i))))
                [] price_type = "min" ->
                     At(FirstIdx(cost_col_idx + 1, Min(cost_col_idx + MinWindow - 1, n),
                                 LAMBDA i : In("min", name(i))))
                [] price_type = "max" ->
                     At(FirstIdx(cost_col_idx + 1, Min(cost_col_idx + MaxWindow - 1, n),
                                 LAMBDA i : In("max", name(i))))
                [] OTHER -> FlatColumn(tier) :
              tier \in {[type \in {"per_unit", "flat"} |->
                          Only({<<tiered,
                                  select_price_column_by_weight(tiered, charge_weight)>> :
                                   tiered \in {find_weight_tiered_price_columns(
                                                   columns_list, cost_col_idx, type)}})]}})

\* (price_value, column_name, reason_string) of return_reason=True
find_cost_price_in_rate_data(df_rate_data, lane_number, cost_type, price_type, charge_weight) ==
    LET columns_list == df_rate_data.columns
        Value(price_value, price_col) ==
            IF price_value = None \/ isna(price_value) \/ Strip(price_value) = ""
            THEN PriceResult(None, price_col,
                             "Price value is empty for cost '" \o cost_type \o "' in lane "
                             \o lane_number)
            ELSE PriceResult(price_value, price_col, None)
        Price(row_idx, cost_col_idx, pcol) ==
            IF row_idx = 0
            THEN PriceResult(None, None,
                             "Lane #" \o lane_number \o " not found in rate data")
            ELSE IF cost_col_idx = 0
            THEN PriceResult(None, None,
                             "Cost type '" \o cost_type \o "' not found in rate card columns")
            ELSE IF pcol.idx = 0 THEN PriceResult(None, None, pcol.reason)
            ELSE Value(df_rate_data.data[row_idx][pcol.idx], columns_list[pcol.idx])
    IN  Only({Price(FirstIdx(1, Len(df_rate_data.data),
                             LAMBDA r : Strip(df_rate_data.data[r][1]) = Strip(lane_number)),
                    cost_col_idx,
                    IF cost_col_idx = 0 THEN [idx |-> 0, reason |-> None]
                    ELSE PriceColumn(columns_list, cost_col_idx, cost_type, price_type,
                                     charge_weight)) :
                 cost_col_idx \in {CostColumn(columns_list, cost_type)}})

(***************************************************************************)
(* Accessorial costs                                                       *)
(***************************************************************************)
\* The column roles of an accessorial table, in the order of the elif chain;
\* the last column of a role wins.
AccRole(col) ==
    LET Role(col_lower) ==
            IF In("cost", col_lower) /\ In("name", col_lower) THEN "cost_name"
            ELSE IF In("rate", col_lower) /\ In("by", col_lower) THEN "rate_by"
            ELSE IF In("applies", col_lower) /\ In("if", col_lower) THEN "applies_if"
            ELSE IF In("lane", col_lower) THEN "lane"
            ELSE IF In("price flat", col_lower) THEN "price_flat"
            ELSE IF In("per unit", col_lower) \/ In("price per", col_lower)
            THEN "price_per_unit"
            ELSE IF In("has min", col_lower) \/ In("min flat", col_lower)
            THEN "has_min_flat"
            ELSE "other"
    IN  Role(Lower(col))

AccCol(columns, role) == LET P(col) == AccRole(col) = role IN LastCol(columns, P)

\* str(int(float(cell))) of a lane cell, None when it is no number
LaneNum(cell) ==
    LET Whole(f) ==
            IF ~f.ok \/ f.nan THEN None
            ELSE IF f.v < 0
            THEN (IF (0 - f.v) \div Scale = 0 THEN "0" ELSE "-" \o NatStr((0 - f.v) \div Scale))
            ELSE NatStr(f.v \div Scale)
    IN  Whole(Float(cell))

\* float(cell) of a price cell printed back, None when empty or no number
AccPrice(row, c) ==
    LET Printed(val, f) ==
            IF c = 0 \/ val = None \/ isna(val) \/ Strip(val) = "" \/ ~f.ok THEN None
            ELSE IF f.nan THEN NaN
            ELSE FloatStr(f.v)
    IN  Only({Printed(val, Float(val)) : val \in {Get(row, c, None)}})

StrippedOrEmpty(row, c) ==
    IF c # 0 /\ Get(row, c, None) # None /\ notna(Get(row, c, None))
    THEN Strip(Get(row, c, "")) ELSE ""

\* (cost_name, rate_by, applies_if, price_flat, price_per_unit, has_min_flat, lane_num)
get_all_matching_accessorial_costs(cost_type, df_accessorial) ==
    LET Flag(row, c) ==
            IF c # 0 /\ Get(row, c, None) # None /\ notna(Get(row, c, None))
               /\ Lower(Strip(Get(row, c, ""))) \in {"yes", "true", "1", "y"}
            THEN "True" ELSE "False"
        Lane(row, c) ==
            IF c # 0 /\ Get(row, c, None) # None /\ notna(Get(row, c, None))
            THEN LaneNum(Get(row, c, None)) ELSE None
        Entry(row, col) ==
            <<Strip(Get(row, col["cost_name"], "")),
              StrippedOrEmpty(row, col["rate_by"]),
              StrippedOrEmpty(row, col["applies_if"]),
              AccPrice(row, col["price_flat"]),
              AccPrice(row, col["price_per_unit"]),
              Flag(row, col["has_min_flat"]),
              Lane(row, col["lane"])>>
        Named(m) == is_match(Lower(m[1]), Lower(Strip(cost_type)))
    IN  IF NoneOrEmpty(df_accessorial) THEN <<>>
        ELSE Only({IF col["cost_name"] = 0 THEN <<>>
                   ELSE SelectSeq([i \in 1..Len(df_accessorial.data) |->
                                      Entry(RowDict(df_accessorial, i), col)], Named) :
                      col \in {[role \in {"cost_name", "rate_by", "applies_if", "lane",
                                          "price_flat", "price_per_unit", "has_min_flat"} |->
                                  AccCol(df_accessorial.columns, role)]}})

NoAccessorial == <<None, None, None, None, None, None>>

\* (cost_name, rate_by, applies_if, price_flat, price_per_unit, has_min_flat)
find_best_matching_accessorial_cost(cost_type, df_accessorial, lane_number, etof_row_data) ==
    LET onLane(m) == IF lane_number # None /\ m[7] # None THEN m[7] = lane_number
                     ELSE m[7] = None
        Best(lane_matches, matches_with_conditions_met, matches_without_conditions) ==
            IF Len(lane_matches) = 1 THEN lane_matches[1]
            ELSE IF matches_with_conditions_met # <<>>
            THEN LongestNamed(matches_with_conditions_met)
            ELSE IF matches_without_conditions # <<>>
            THEN ShortestNamed(matches_without_conditions)
            ELSE lane_matches[1]
        OnLane(all_matches, filtered) == IF filtered = <<>> THEN all_matches ELSE filtered
    IN  Only({IF all_matches = <<>> THEN NoAccessorial
              ELSE Only({SubSeq(Best(lane_matches,
                                     SelectSeq(lane_matches,
                                               LAMBDA m : ConditionsMet(m, etof_row_data)),
                                     SelectSeq(lane_matches,
                                               LAMBDA m : WithoutConditions(m,
                                                                            etof_row_data))),
                                1, 6) :
                            lane_matches \in
                               {OnLane(all_matches, SelectSeq(all_matches, onLane))}}) :
                 all_matches \in
                    {get_all_matching_accessorial_costs(cost_type, df_accessorial)}})

(***************************************************************************)
(* Multiplier selection                                                    *)
(***************************************************************************)
\* the Rate By text without its "Rate by:" prefix
RateByClean(rate_by_text) ==
    LET Rest(t, j) == IF j <= Len(t) THEN Strip(SubSeq(t, j, Len(t))) ELSE t
        After(t, i) == IF i = 0 THEN t ELSE Rest(t, i + 8 + SpacesAt(t, i + 8))
        Prefixed(t) == After(t, Find(Lower(t), "rate by:"))
    IN  Prefixed(Strip(rate_by_text))

extract_rate_by_column_keyword(rate_by_text) ==
    LET Keyword(parts, keyword) ==
            IF Len(parts) >= 2 /\ keyword # ""
               /\ keyword \notin {"kg", "chargeable", "weight"}
            THEN keyword
            ELSE None
        Last(parts) == Keyword(parts, Lower(Strip(parts[Len(parts)])))
    IN  IF ~Truthy(rate_by_text) THEN None
        ELSE Last(Split(RateByClean(rate_by_text), "/"))

keyword_mappings(keyword) ==
    CASE keyword = "ldm" -> <<"LDM", "ldm", "LOADING_METERS", "loading_meters">>
      [] keyword = "cbm" -> <<"CBM", "cbm", "CUBIC_METERS", "cubic_meters", "VOLUME">>
      [] keyword = "cdm" -> <<"CBM", "cbm", "CDM", "cdm">>
      [] keyword = "hawb" -> <<"HAWB", "hawb", "HOUSE_AWB">>
      [] keyword = "mawb" -> <<"MAWB", "mawb", "MASTER_AWB">>
      [] keyword = "pieces" -> <<"PIECES", "pieces", "PCS", "pcs", "QUANTITY">>
      [] keyword = "pallets" -> <<"PALLETS", "pallets", "PALLET_COUNT">>
      [] OTHER -> <<keyword, keyword, keyword>>

Found(name, value, found) == [name |-> name, value |-> value, found |-> found]

\* (column_name, value, found)
find_value_in_etof_columns(rate_by_text, etof_row_data) ==
    LET cols == etof_row_data.columns
        Alike(col_name_lower, col_option_lower) ==
            \/ col_name_lower = col_option_lower
            \/ In(col_option_lower, col_name_lower)
            \/ EndsWith(col_name_lower, "_" \o col_option_lower)
            \/ StartsWith(col_name_lower, col_option_lower \o "_")
        hit(col_option, c) ==
            /\ Alike(Underscored(cols[c]), Underscored(col_option))
            /\ etof_row_data.vals[c] # None
            /\ notna(etof_row_data.vals[c])
        At(c) == Found(cols[c], etof_row_data.vals[c], TRUE)
        \* the first option, in list order, that a column with a value matches
        First(keyword, Hits) ==
            IF Hits = {} THEN Found(keyword, None, FALSE)
            ELSE At((CHOOSE x \in Hits :
                       \A y \in Hits : x[1] < y[1] \/ (x[1] = y[1] /\ x[2] <= y[2]))[2])
        Search(keyword, possible_columns) ==
            First(keyword, {x \in (1..Len(possible_columns)) \X (1..Len(cols)) :
                              hit(possible_columns[x[1]], x[2])})
        Keyword(keyword) ==
            IF cols = <<>> \/ keyword = None THEN Found(None, None, FALSE)
            ELSE Search(keyword, keyword_mappings(keyword))
    IN  Keyword(extract_rate_by_column_keyword(rate_by_text))

\* the lookup that keeps the last MEASUREMENT entry that matches
extract_last_measurement_value(rate_by_text, measurement_str, units_measurement_str) ==
    LET Alike(meas_lower, rate_by_lower) ==
            \/ meas_lower = rate_by_lower
            \/ In(rate_by_lower, meas_lower)
            \/ In(meas_lower, rate_by_lower)
        Last(rate_by_clean, measurements, units, Hits) ==
            IF Hits = {} THEN Found(rate_by_clean, None, FALSE)
            ELSE Found(Strip(measurements[CHOOSE k \in Hits : \A x \in Hits : x <= k]),
                       Strip(units[CHOOSE k \in Hits : \A x \in Hits : x <= k]), TRUE)
        Search(rate_by_clean, measurements, units) ==
            Last(rate_by_clean, measurements, units,
                 {k \in 1..Min(Len(measurements), Len(units)) :
                    Alike(Lower(Strip(measurements[k])), Lower(rate_by_clean))})
    IN  IF ~Truthy(measurement_str) \/ ~Truthy(units_measurement_str)
        THEN Found(None, None, FALSE)
        ELSE Search(RateByClean(rate_by_text), Split(measurement_str, ";"),
                    Split(units_measurement_str, ";"))

\* (measurement_name, units_value, found)
extract_measurement_value(rate_by_text, measurement_str, units_measurement_str) ==
    LET Pick(rate_by_clean, measurements, units, i) ==
            IF i = 0 THEN Found(rate_by_clean, None, FALSE)
            ELSE Found(Strip(measurements[i]), Strip(units[i]), TRUE)
        Alike(meas_lower, rate_by_lower) ==
            \/ meas_lower = rate_by_lower
            \/ In(rate_by_lower, meas_lower)
            \/ In(meas_lower, rate_by_lower)
        Search(rate_by_clean, rate_by_lower, measurements, units) ==
            Pick(rate_by_clean, measurements, units,
                 FirstIdx(1, Min(Len(measurements), Len(units)),
                          LAMBDA k : Alike(Lower(Strip(measurements[k])), rate_by_lower)))
        Cleaned(rate_by_clean) ==
            Search(rate_by_clean, Lower(rate_by_clean), Split(measurement_str, ";"),
                   Split(units_measurement_str, ";"))
    IN  IF ~Truthy(measurement_str) \/ ~Truthy(units_measurement_str)
        THEN Found(None, None, FALSE)
        ELSE Cleaned(RateByClean(rate_by_text))

(***************************************************************************)
(* Reference data of a batch run: the rate cards and accessorial files per *)
(* agreement (dicts, in insertion order) and the shipment table.           *)
(***************************************************************************)
RA1CostConditions ==
    DataFrame(<<"Cost Name", "Rate By", "Applies If">>,
      << <<"Pickup Fee", "PER SHIPMENT", "No condition">>,
         <<"Freight", "Rate by: Weight/chargeable kg", NaN>>,
         <<"Delivery Fee (Getafe)", "PER SHIPMENT", "1. Carrier Name equals 'DHL'">>,
         <<"Delivery Fee (Illescas)", "PER SHIPMENT",
           "1. Carrier Name equals 'Bollore DE (EUR)'">>,
         <<"Air DGR Fee", "PER SHIPMENT", "1. Origin Country equals 'ES'">>,
         <<"Handling", "Rate by: Quantity/HAWB",
           "Applies if invoiced by Carrier and Origin Country does not contain 'ES'">>,
         <<"Storage", "PER SHIPMENT", "1. Zone equals 'A'">>,
         <<"Linehaul", "PER SHIPMENT", NaN>>,
         <<"Customs", "PER SHIPMENT", NaN>>,
         <<"Trucking", "Rate by: Weight/kg", NaN>>,
         <<"Insurance", NaN, NaN>> >>)

RA1RateData ==
    DataFrame(
      <<"Lane #", "Pickup Fee", "Price Flat", "Freight", "Price per unit",
        "Price per unit MIN", "Price per unit MAX", "Delivery Fee (Getafe)", "Price Flat.1",
        "Delivery Fee (Illescas)", "Price Flat.2", "Air DGR Fee", "Price Flat.3",
        "Handling", "Price per unit.1", "Storage", "Price Flat.4", "Linehaul",
        "Price Flat <=200", "Price Flat >200 <=500", "Price Flat >500 <=1000",
        "Trucking", "Price Flat <=200", "Price Flat >200 <=500">>,
      << <<"10", "EUR", "45.5", "EUR", "2.0", "300", "1000", "EUR", "30.0", "EUR", "35.0",
           "EUR", "60.0", "EUR", "5.0", "EUR", "12.0", "EUR", "100.0", "180.0", "250.0",
           "EUR", "90.0", "150.0">>,
         <<"20", "EUR", NaN, "EUR", "abc", NaN, NaN, "EUR", "31.0", "EUR", "36.0",
           "EUR", "61.0", "EUR", "5.5", "EUR", NaN, "EUR", "110.0", "190.0", "260.0",
           "EUR", "95.0", NaN>> >>)

\* an agreement whose costs are rated per unit, with and without MIN and MAX columns
RA3CostConditions ==
    DataFrame(<<"Cost Name", "Rate By", "Applies If">>,
      << <<"Handling", "Rate by: Weight/kg", NaN>>,
         <<"Freight", "Rate by: Weight/kg", NaN>>,
         <<"Insurance", "Rate by: Weight/kg", NaN>>,
         <<"Customs", "Rate by: Quantity/HAWB", NaN>>,
         <<"Storage", "Rate by: Area/ldm", NaN>>,
         <<"Pickup Fee", "PER SHIPMENT (chargeable weight)", NaN>>,
         <<"Demurrage", "Rate by: Zone 3", NaN>> >>)

RA3RateData ==
    DataFrame(
      <<"Lane #", "Handling", "Price per unit", "Freight", "Price per unit.1",
        "Price Flat MIN", "Price Flat MAX", "Insurance", "Price per unit.2",
        "Price Flat MIN.1", "Price Flat MAX.1", "Customs", "Price per unit.3", "Storage",
        "Price per unit.4", "Pickup Fee", "Price Flat", "Price per unit.5",
        "Price Flat MIN.2", "Price Flat MAX.2", "Demurrage", "Price per unit.6">>,
      << <<"10", "EUR", "2.0", "EUR", "3.0", "400", "1000", "EUR", "1.0", "abc", NaN,
           "EUR", "5.0", "EUR", "7.0", "EUR", "45.5", "9.9", "9000", "1", "EUR", "4.0">>,
         <<"20", "EUR", "2.5", "EUR", "3.5", NaN, "n/a", "EUR", "1.5", "", "abc",
           "EUR", "5.5", "EUR", "7.5", "EUR", "46.5", "9.8", "9000", "1", "EUR", "4.5">> >>)

all_rate_costs ==
    << [key |-> "RA1", rate_data |-> RA1RateData, cost_conditions |-> RA1CostConditions],
       [key |-> "RA2", rate_data |-> RA1RateData, cost_conditions |-> NoneFrame],
       [key |-> "RA3", rate_data |-> RA3RateData, cost_conditions |-> RA3CostConditions] >>

RA1Accessorial ==
    DataFrame(<<"Cost Name", "Rate By", "Lane #", "Price Flat", "Price per unit",
                "Applies If", "Has MIN Flat">>,
      << <<"Cancellation Fee", "PER SHIPMENT", NaN, "50", NaN, NaN, NaN>>,
         <<"Waiting", "Rate by: Weight/kg", NaN, "25", "1.2", NaN, "Yes">>,
         <<"DGR Fee (Hazardous)", "PER SHIPMENT", "10", "75", NaN, NaN, NaN>>,
         <<"DGR Fee (Hazardous)", "PER SHIPMENT", "20", "80", NaN, NaN, NaN>> >>)

\* an accessorial file: whether it can be read, and the sheet it holds
all_accessorial_costs ==
    << [key |-> "RA1", loads |-> TRUE, sheet |-> RA1Accessorial],
       [key |-> "RA2", loads |-> FALSE, sheet |-> NoneFrame] >>

df_lc_etof_mapping ==
    DataFrame(<<"ETOF #", "Carrier Name", "SHIP_COUNTRY", "CHARGE_WEIGHT", "MEASUREMENT",
                "UNITS_MEASUREMENT", "Comment", "LDM">>,
      << <<"E1", "DHL", "ES", "120", "Quantity/HAWB", "2", "Rate lane: 10", "3.5">>,
         <<"E2", "Bollore DE (EUR)", "DE", "200.01", "Quantity/HAWB", "3",
           "Rate lanes: 10, 20", NaN>>,
         <<"E3", "DHL", "FR", "1000.01", NaN, NaN, "Rate lane: 10", NaN>>,
         <<"E4", "DHL", "ES", NaN, NaN, NaN, NaN, NaN>>,
         <<"E5", "Kuehne", "ES", "abc", "Quantity/HAWB", "x", "Rate lane: 20", NaN>>,
         <<"E6", "DHL", "DE", "200", NaN, NaN, "Rate lane: 30", NaN>>,
         <<"E7", "DHL", "ES", "120",
           "Condition/Zone 3;Quantity/HAWB;Weight/kg;Quantity/HAWB;Area/ldm", "1;4;99;7;8",
           "Rate lane: 10", "2">>,
         <<"E8", "DHL", "ES", "50", "Condition/Zone 3;Quantity/HAWB;Area/ldm", "1",
           "Rate lane: 20", "6">>,
         <<"E0", "DHL", "ES", "75", NaN, NaN, "call the carrier", NaN>> >>)

\* the header of the mismatch table
MismatchColumns == <<"ETOF #", "Cost Type", "Carrier Agreement #", "Comment">>

(***************************************************************************)
(* The lookups check_conditions_and_add_reason builds before its loop      *)
(***************************************************************************)
etof_col_mapping ==
    FirstCol(df_lc_etof_mapping.columns,
             LAMBDA col : In("etof", Lower(col)) /\ In("#", Lower(col)))

comment_col_mapping ==
    FirstCol(df_lc_etof_mapping.columns, LAMBDA col : In("comment", Lower(col)))

charge_weight_col ==
    FirstCol(df_lc_etof_mapping.columns,
             LAMBDA col : In("charge", Lower(col)) /\ In("weight", Lower(col)))

measurement_col ==
    LastCol(df_lc_etof_mapping.columns,
            LAMBDA col : Lower(col) \in {"measurement", "measurements"})

units_measurement_col ==
    LastCol(df_lc_etof_mapping.columns,
            LAMBDA col : /\ Lower(col) \notin {"measurement", "measurements"}
                         /\ In("units", Lower(col)) /\ In("measurement", Lower(col)))

\* the shipment row stored under an ETOF key (the last one wins), 0 when absent
EtofIndex(etof_number) ==
    LET Last(Rs) == IF Rs = {} THEN 0 ELSE CHOOSE r \in Rs : \A x \in Rs : x <= r
        Keyed(c) ==
            IF c = 0 THEN 0
            ELSE Last({r \in 1..Len(df_lc_etof_mapping.data) :
                         /\ notna(df_lc_etof_mapping.data[r][c])
                         /\ Strip(df_lc_etof_mapping.data[r][c]) = etof_number})
    IN  Keyed(etof_col_mapping)

\* dict.get(etof_number, default) on the mapping built from column c
EtofGet(etof_number, c, default) ==
    LET At(r) == IF c = 0 \/ r = 0 THEN default ELSE df_lc_etof_mapping.data[r][c]
    IN  At(EtofIndex(etof_number))

etof_to_comment(etof_number) == EtofGet(etof_number, comment_col_mapping, None)

etof_to_charge_weight(etof_number) == EtofGet(etof_number, charge_weight_col, None)

etof_to_measurement(etof_number) ==
    LET Text(v) == IF notna(v) THEN v ELSE ""
    IN  IF units_measurement_col = 0 THEN ""
        ELSE Text(EtofGet(etof_number, measurement_col, ""))

etof_to_units_measurement(etof_number) ==
    LET Text(v) == IF notna(v) THEN v ELSE ""
    IN  IF measurement_col = 0 THEN ""
        ELSE Text(EtofGet(etof_number, units_measurement_col, ""))

etof_to_row_data(etof_number) ==
    LET Row(r) == IF r = 0 THEN EmptyRow ELSE RowDict(df_lc_etof_mapping, r)
    IN  Row(EtofIndex(etof_number))

(***************************************************************************)
(* check_conditions_and_add_reason: the stages of one row                  *)
(***************************************************************************)
etof_col_mismatch ==
    FirstCol(MismatchColumns,
             LAMBDA col : In("etof", Lower(col))
                          /\ (In("number", Lower(col)) \/ In("#", Lower(col))))

cost_type_col ==
    FirstCol(MismatchColumns, LAMBDA col : In("cost", Lower(col)) /\ In("type", Lower(col)))

agreement_col_mismatch ==
    FirstCol(MismatchColumns,
             LAMBDA col : In("carrier", Lower(col)) /\ In("agreement", Lower(col)))

comment_col_mismatch == FirstCol(MismatchColumns, LAMBDA col : Lower(col) = "comment")

\* the cell as the table holds it, white space kept
Untrimmed(row, c) == IF c # 0 /\ notna(row[c]) THEN row[c] ELSE ""

\* str(row.get(col, '')).strip() if pd.notna(row.get(col)) else ''
Clean(row, c) == IF c # 0 /\ notna(row[c]) THEN Strip(row[c]) ELSE ""

\* str(x).strip() if x and pd.notna(x) else ''
Display(x) == IF Truthy(x) /\ notna(x) THEN Strip(x) ELSE ""

\* all_rate_costs.get(agreement), then the first key that contains the agreement
\* or is contained in it; the index of the entry, 0 for None
AgreementData(agreement) ==
    LET n == Len(all_rate_costs)
        Partial(exact) ==
            IF exact # 0 THEN exact
            ELSE IF agreement = "" THEN 0
            ELSE FirstIdx(1, n, LAMBDA i : \/ In(all_rate_costs[i].key, agreement)
                                           \/ In(agreement, all_rate_costs[i].key))
    IN  Partial(FirstIdx(1, n, LAMBDA i : all_rate_costs[i].key = agreement))

\* Rate By and Applies If shown on a row that keeps its comment as Reason
CommentDisplay(cost_type, agreement) ==
    Only({IF a = 0 THEN <<"", "">>
          ELSE Only({<<Display(looked[1]), Display(looked[2])>> :
                        looked \in {get_cost_conditions_for_cost_type(
                                        cost_type, all_rate_costs[a].cost_conditions)}}) :
             a \in {AgreementData(agreement)}})

\* the accessor that caches None where it should cache the sheet it read
get_accessorial_data_caching_none(agreement, cache) ==
    LET n == Len(all_accessorial_costs)
        Load(file, loaded) ==
            [df |-> loaded, cache |-> (file.key :> NoneFrame) @@ cache, opened |-> file.key]
        File(f) ==
            IF f = 0 THEN [df |-> NoneFrame, cache |-> cache, opened |-> None]
            ELSE Load(all_accessorial_costs[f],
                      IF all_accessorial_costs[f].loads THEN all_accessorial_costs[f].sheet
                      ELSE NoneFrame)
        Exact(exact, partial) == IF exact # 0 THEN exact ELSE partial
    IN  IF agreement \in DOMAIN cache
        THEN [df |-> cache[agreement], cache |-> cache, opened |-> None]
        ELSE File(Exact(FirstIdx(1, n, LAMBDA i : all_accessorial_costs[i].key = agreement),
                        FirstIdx(1, n, LAMBDA i :
                                    \/ In(all_accessorial_costs[i].key, agreement)
                                    \/ In(agreement, all_accessorial_costs[i].key))))

\* the accessor with a cache of one slot: whatever was cached answers every agreement
get_accessorial_data_single_slot(agreement, cache) ==
    LET n == Len(all_accessorial_costs)
        Load(file, loaded) ==
            [df |-> loaded, cache |-> (file.key :> loaded) @@ cache, opened |-> file.key]
        File(f) ==
            IF f = 0 THEN [df |-> NoneFrame, cache |-> cache, opened |-> None]
            ELSE Load(all_accessorial_costs[f],
                      IF all_accessorial_costs[f].loads THEN all_accessorial_costs[f].sheet
                      ELSE NoneFrame)
        Exact(exact, partial) == IF exact # 0 THEN exact ELSE partial
    IN  IF DOMAIN cache # {}
        THEN [df |-> cache[CHOOSE k \in DOMAIN cache : TRUE], cache |-> cache,
              opened |-> None]
        ELSE File(Exact(FirstIdx(1, n, LAMBDA i : all_accessorial_costs[i].key = agreement),
                        FirstIdx(1, n, LAMBDA i :
                                    \/ In(all_accessorial_costs[i].key, agreement)
                                    \/ In(agreement, all_accessorial_costs[i].key))))

\* (df_accessorial, cache afterwards, the key of the file it opened or None); the
\* cache maps agreement keys to sheets
get_accessorial_data_for_agreement(agreement, cache) ==
    LET n == Len(all_accessorial_costs)
        Load(file, loaded) ==
            [df |-> loaded, cache |-> (file.key :> loaded) @@ cache, opened |-> file.key]
        File(f) ==
            IF f = 0 THEN [df |-> NoneFrame, cache |-> cache, opened |-> None]
            ELSE Load(all_accessorial_costs[f],
                      IF all_accessorial_costs[f].loads THEN all_accessorial_costs[f].sheet
                      ELSE NoneFrame)
        Exact(exact, partial) == IF exact # 0 THEN exact ELSE partial
    IN  IF agreement \in DOMAIN cache
        THEN [df |-> cache[agreement], cache |-> cache, opened |-> None]
        ELSE File(Exact(FirstIdx(1, n, LAMBDA i : all_accessorial_costs[i].key = agreement),
                        FirstIdx(1, n, LAMBDA i :
                                    \/ In(all_accessorial_costs[i].key, agreement)
                                    \/ In(agreement, all_accessorial_costs[i].key))))

NoCost == [found |-> FALSE, matched_cost_name |-> None, rate_by |-> "", applies_if |-> "",
           use_accessorial |-> FALSE, accessorial_price_flat |-> None,
           accessorial_price_per_unit |-> None, accessorial_has_min_flat |-> "False"]

\* MatchCost: the rate card's cost conditions, else the accessorial sheet
MatchCost(cost_type, etof_number, agreement, cache) ==
    LET FromCard(best) ==
            [cost |-> [NoCost EXCEPT !.found = TRUE, !.matched_cost_name = best[1],
                                     !.rate_by = Display(best[2]),
                                     !.applies_if = Display(best[3])],
             cache |-> cache]
        FromAccessorial(acc, cache_after) ==
            IF Truthy(acc[2]) \/ Truthy(acc[3]) \/ acc[4] # None \/ acc[5] # None
            THEN [cost |-> [found |-> TRUE, matched_cost_name |-> acc[1],
                            rate_by |-> IF Truthy(acc[2]) THEN acc[2] ELSE "",
                            applies_if |-> IF Truthy(acc[3]) THEN acc[3] ELSE "",
                            use_accessorial |-> TRUE, accessorial_price_flat |-> acc[4],
                            accessorial_price_per_unit |-> acc[5],
                            accessorial_has_min_flat |-> acc[6]],
                  cache |-> cache_after]
            ELSE [cost |-> NoCost, cache |-> cache_after]
        \* lane_number = lanes[0] if len(lanes) == 1 else None
        SingleLane(lanes) == IF Len(lanes) = 1 THEN lanes[1] ELSE None
        Lanes(comment) == IF Truthy(comment) THEN extract_rate_lane(comment) ELSE <<>>
    IN  Only({IF Display(best[2]) # "" \/ Display(best[3]) # "" THEN FromCard(best)
              ELSE Only({IF IsNoneFrame(got.df) THEN [cost |-> NoCost, cache |-> got.cache]
                         ELSE FromAccessorial(
                                  find_best_matching_accessorial_cost(
                                      cost_type, got.df,
                                      SingleLane(Lanes(etof_to_comment(etof_number))),
                                      etof_to_row_data(etof_number)),
                                  got.cache) :
                            got \in {get_accessorial_data_for_agreement(agreement, cache)}}) :
                 best \in {find_best_matching_cost(
                               cost_type,
                               all_rate_costs[AgreementData(agreement)].cost_conditions,
                               etof_to_row_data(etof_number))}})

\* the words that make an "Applies if invoiced ..." text a real condition
RealConditionKeywords == <<"equals", "starts with", "starts", "contains", "does not equal">>

\* whether the engine evaluates the Applies If text at all
is_no_applies_if_condition(applies_if) ==
    LET applies_if_lower == Lower(applies_if)
    IN  \/ applies_if = ""
        \/ In("no condition", applies_if_lower)
        \/ applies_if_lower = "nan"
        \/ /\ In("applies if invoiced", applies_if_lower)
           /\ \A k \in 1..Len(RealConditionKeywords) :
                 ~In(RealConditionKeywords[k], applies_if_lower)

\* EvaluateAppliesIf: (applies_if_met, reason when not met)
EvaluateAppliesIf(applies_if, etof_number) ==
    LET Checked(checked) ==
            IF checked.is_met THEN [met |-> TRUE, reason |-> None]
            ELSE [met |-> FALSE,
                  reason |-> IF Truthy(checked.reason) THEN checked.reason
                             ELSE "Applies If condition not met: "
                                  \o SubSeq(applies_if, 1, Min(100, Len(applies_if)))]
    IN  Only({IF is_no_applies_if_condition(applies_if) \/ parsed_conditions = <<>>
              THEN [met |-> TRUE, reason |-> None]
              ELSE Only({IF etof_row_data = EmptyRow
                         THEN [met |-> FALSE,
                               reason |-> "ETOF " \o etof_number
                                          \o " not found in lc_etof_with_comments - cannot verify Applies If conditions"]
                         ELSE Checked(check_applies_if_condition(
                                          parsed_conditions, etof_number, etof_row_data)) :
                            etof_row_data \in {etof_to_row_data(etof_number)}}) :
                 parsed_conditions \in {parse_applies_if_condition(applies_if)}})

\* the outcome of a stage that ends the row: its Reason, or an exception leaving the loop
Reason(text) == [reason |-> text, raised |-> FALSE]

\* "Multiple rate lanes found (10, 20) - manual check required"
MultipleLanes(lanes) ==
    Reason("Multiple rate lanes found (" \o JoinComma(lanes) \o ") - manual check required")

IsTierColumn(price_col) == Truthy(price_col) /\ (In("<=", price_col) \/ In(">", price_col))

\* the price lookup's own reason, or the general one
NotCovered(price_reason) ==
    Reason(IF Truthy(price_reason) THEN price_reason
           ELSE "The cost is not covered for the provided shipment details.")

\* matched_cost_name if matched_cost_name else cost_type
CostNameForLookup(cost, cost_type) ==
    IF Truthy(cost.matched_cost_name) THEN cost.matched_cost_name ELSE cost_type

\* Rate By is per shipment: the flat price of the single lane
PerShipment(cost, cost_type, etof_number, df_rate_data) ==
    LET Priced(found) ==
            IF found.price = None THEN NotCovered(found.reason)
            ELSE IF IsTierColumn(found.col)
            THEN Reason("The cost is pre-calculated by rate card - " \o found.price
                        \o " flat (weight tier: " \o found.col \o ").")
            ELSE Reason("The cost is pre-calculated by rate card - " \o found.price
                        \o " flat.")
    IN  IF cost.use_accessorial
        THEN IF cost.accessorial_price_flat # None
             THEN Reason("The cost is pre-calculated by rate card (accessorial) - "
                         \o cost.accessorial_price_flat \o " flat.")
             ELSE IF cost.accessorial_price_per_unit # None
             THEN Reason("Cost per unit (accessorial): " \o cost.accessorial_price_per_unit)
             ELSE Reason("The cost is not covered for the provided shipment details (accessorial - no price found).")
        ELSE Only({
             IF ~Truthy(comment) THEN Reason("No comment found for ETOF " \o etof_number)
             ELSE Only({
                  IF lanes = <<>>
                  THEN Reason("Could not extract rate lane from comment: " \o comment)
                  ELSE IF Len(lanes) > 1 THEN MultipleLanes(lanes)
                  ELSE Priced(find_cost_price_in_rate_data(
                                  df_rate_data, lanes[1], CostNameForLookup(cost, cost_type),
                                  "flat", etof_to_charge_weight(etof_number))) :
                  lanes \in {extract_rate_lane(comment)}}) :
             comment \in {etof_to_comment(etof_number)}})

\* the multiplier of a per-unit rate basis: (value, name, reason when not found)
ResolveMultiplier(rate_by, etof_number) ==
    LET M(value, name, why, is_weight_based) ==
            [value |-> value, name |-> name, not_found |-> why,
             is_weight_based |-> is_weight_based]
        WeightBased(rate_by_lower) ==
            \/ In("weight", rate_by_lower) \/ In("kg", rate_by_lower)
            \/ In("chargeable", rate_by_lower)
        Weight(charge_weight) ==
            M(charge_weight, "CHARGE_WEIGHT",
              IF charge_weight = None \/ isna(charge_weight)
              THEN "CHARGE_WEIGHT not found for ETOF " \o etof_number ELSE None,
              TRUE)
        Other(meas, col) ==
            IF meas.found THEN M(meas.value, meas.name, None, FALSE)
            ELSE IF col.found THEN M(col.value, col.name, None, FALSE)
            ELSE M(None, None,
                   "'" \o (IF Truthy(meas.name) THEN meas.name ELSE col.name)
                   \o "' not found in MEASUREMENT column or direct columns for ETOF "
                   \o etof_number,
                   FALSE)
    IN  IF WeightBased(Lower(rate_by)) THEN Weight(etof_to_charge_weight(etof_number))
        ELSE Other(extract_measurement_value(rate_by, etof_to_measurement(etof_number),
                                             etof_to_units_measurement(etof_number)),
                   find_value_in_etof_columns(rate_by, etof_to_row_data(etof_number)))

\* float(price_per_unit) outside any try: the ValueError leaves the loop
UncaughtValueError(prefix, price_per_unit) == [reason |-> None, raised |-> TRUE]

\* except (ValueError, TypeError) around float(price_per_unit)
InvalidPriceFormat(prefix, price_per_unit) ==
    Reason(prefix \o price_per_unit \o " (could not calculate - invalid price format)")

\* except (ValueError, TypeError) around float(multiplier_value)
InvalidMultiplier(prefix, price_per_unit, m) ==
    Reason(prefix \o price_per_unit \o ", " \o m.name \o ": " \o m.value
           \o " (could not calculate - invalid multiplier value)")

\* the branch of the missing multiplier without its assignment: reason stays ''
MultiplierMissingUnassigned(prefix, price_per_unit, m, etof_number) == Reason("")

MultiplierMissing(prefix, price_per_unit, m, etof_number) ==
    IF Truthy(m.not_found) THEN Reason(prefix \o price_per_unit \o ", but " \o m.not_found)
    ELSE Reason(prefix \o price_per_unit \o ", " \o m.name \o " not found for ETOF "
                \o etof_number)

\* a limit read the other way round: MAX checked before MIN
AppliedLimitMaxFirst(total_cost, min_price, max_price) ==
    LET Applied(min_float, max_float) ==
            IF max_price # None /\ max_float.ok /\ ~max_float.nan
               /\ total_cost > max_float.v * Scale
            THEN "MAX"
            ELSE IF min_price # None /\ min_float.ok /\ ~min_float.nan
                    /\ total_cost < min_float.v * Scale
            THEN "MIN"
            ELSE ""
    IN  Applied(Float(min_price), Float(max_price))

\* min_applied / max_applied for a total given in units of 1 / Scale^2: MIN is checked
\* first, MAX only if MIN was not applied; a limit float() cannot read is ignored
AppliedLimit(total_cost, min_price, max_price) ==
    LET Applied(min_float, max_float) ==
            IF min_price # None /\ min_float.ok /\ ~min_float.nan
               /\ total_cost < min_float.v * Scale
            THEN "MIN"
            ELSE IF max_price # None /\ max_float.ok /\ ~max_float.nan
                    /\ total_cost > max_float.v * Scale
            THEN "MAX"
            ELSE ""
    IN  Applied(Float(min_price), Float(max_price))

\* total = price per unit * multiplier, MIN checked before MAX
ComputeTotal(tag, price_per_unit, price_col, min_price, max_price, m, etof_number) ==
    LET prefix == "Cost per unit" \o tag \o ": "
        calculated(total_cost) ==
            " (Calculated: " \o price_per_unit \o " * " \o m.value \o " ("
            \o m.name \o ") = " \o total_cost
        Limited(applied, shown) ==
            IF applied = "MIN"
            THEN Reason("MIN price applied" \o tag \o " - " \o min_price
                        \o calculated(shown) \o ", but MIN is higher)")
            ELSE IF applied = "MAX"
            THEN Reason("MAX price applied - " \o max_price \o calculated(shown)
                        \o ", but MAX is lower)")
            ELSE Reason(prefix \o price_per_unit
                        \o (IF tag = "" /\ IsTierColumn(price_col)
                            THEN " (weight tier: " \o price_col \o ")" ELSE "")
                        \o ", " \o m.name \o ": " \o m.value \o ", Total: "
                        \o price_per_unit \o " * " \o m.value \o " = " \o shown)
        Total(price_float, multiplier_float) ==
            IF ~price_float.ok THEN InvalidPriceFormat(prefix, price_per_unit)
            ELSE IF m.value = None \/ isna(m.value)
            THEN MultiplierMissing(prefix, price_per_unit, m, etof_number)
            ELSE IF ~multiplier_float.ok THEN InvalidMultiplier(prefix, price_per_unit, m)
            ELSE Limited(AppliedLimit(price_float.v * multiplier_float.v,
                                      min_price, max_price),
                         Fmt2(Times(price_float.v, multiplier_float.v)))
    IN  Total(Float(price_per_unit), Float(m.value))

\* str.replace(old, '')
RECURSIVE Remove(_, _)
Remove(s, old) ==
    LET Cut(i) == IF old = "" \/ i = 0 THEN s
                  ELSE SubSeq(s, 1, i - 1) \o Remove(SubSeq(s, i + Len(old), Len(s)), old)
    IN  Cut(Find(s, old))

\* every other Rate By: price per unit times the multiplier
PerUnit(cost, cost_type, etof_number, df_rate_data) ==
    LET \* the per-unit price of the lane and its MIN and MAX; only the per-unit lookup
        \* is given the weight, and only for a weight-based rate basis
        Prices(m, lane) ==
            [price_type \in {"per_unit", "min", "max"} |->
                find_cost_price_in_rate_data(
                    df_rate_data, lane, CostNameForLookup(cost, cost_type), price_type,
                    IF price_type = "per_unit" /\ m.is_weight_based THEN m.value ELSE None)]
        FlatTier(m, per_unit) ==
            Reason("Weight-tiered flat price: " \o per_unit.price \o " (tier: "
                   \o Remove(per_unit.col, "FLAT_TIER:") \o ", " \o m.name \o ": "
                   \o m.value \o ")")
    IN  Only({
        IF cost.use_accessorial
        THEN IF cost.accessorial_price_per_unit # None
             THEN ComputeTotal(" (accessorial)", cost.accessorial_price_per_unit, None,
                               IF cost.accessorial_has_min_flat = "True"
                               THEN cost.accessorial_price_flat ELSE None,
                               None, m, etof_number)
             ELSE IF cost.accessorial_price_flat # None
             THEN Reason("The cost is pre-calculated by rate card (accessorial) - "
                         \o cost.accessorial_price_flat \o " flat.")
             ELSE Reason("The cost is not covered for the provided shipment details (accessorial - no price found).")
        ELSE Only({
             IF ~Truthy(comment) THEN Reason("No comment found for ETOF " \o etof_number)
             ELSE Only({
                  IF lanes = <<>>
                  THEN Reason("Could not extract rate lane from comment: " \o comment)
                  ELSE IF Len(lanes) > 1 THEN MultipleLanes(lanes)
                  ELSE Only({
                       IF price["per_unit"].price = None
                       THEN NotCovered(price["per_unit"].reason)
                       ELSE IF /\ Truthy(price["per_unit"].col)
                               /\ In("FLAT_TIER:", price["per_unit"].col)
                       THEN FlatTier(m, price["per_unit"])
                       ELSE ComputeTotal("", price["per_unit"].price, price["per_unit"].col,
                                         price["min"].price, price["max"].price, m,
                                         etof_number) :
                       price \in {Prices(m, lanes[1])}}) :
                  lanes \in {extract_rate_lane(comment)}}) :
             comment \in {etof_to_comment(etof_number)}}) :
        m \in {ResolveMultiplier(cost.rate_by, etof_number)}})

(***************************************************************************)
(* The batch run.  A mismatch row is its cells under MismatchColumns.      *)
(***************************************************************************)
VARIABLES
    df_mismatch,        \* the rows of the batch
    idx,                \* the row the loop is at
    state,              \* the stage of that row
    cost,               \* the cost entry MatchCost resolved for it
    rate_by_values,     \* the three output lists
    applies_if_values,
    reasons,
    accessorial_cache,  \* _accessorial_cache
    query,              \* the input of a function applied on its own
    result              \* and what it returned

vars == <<df_mismatch, idx, state, cost, rate_by_values, applies_if_values, reasons,
          accessorial_cache, query, result>>

MaxRows == 2

CostTypes == {"Pickup Fee", "Freight", "Delivery Fee", "DGR Fee", "Handling", "Storage",
              "Linehaul", "Customs", "Trucking", "Insurance", "Cancellation Fee",
              "Waiting", "Demurrage"}

Etofs == {"E1", "E2", "E3", "E4", "E5", "E6", "E9"}

\* the shipments and costs of the rows on the per-unit agreement
PerUnitEtofs == {"E1", "E3", "E4", "E7", "E8", "E0"}

PerUnitCostTypes == {"Handling", "Freight", "Insurance", "Customs", "Storage", "Pickup Fee",
                     "Demurrage"}

Agreements == {"RA1", "RA1-2024", "RA2", "RA9", NaN}

Comments == {NaN, "checked manually", " see invoice ", "  "}

\* the batches of one row
SingleRows ==
    {<<e, c, "RA1", NaN>> : e \in Etofs, c \in CostTypes}
    \cup {<<e, c, "RA3", NaN>> : e \in PerUnitEtofs, c \in PerUnitCostTypes}
    \cup {<<e, c, a, m>> : e \in {"E1", "E2"}, c \in {"Pickup Fee", "DGR Fee", "Cancellation Fee"},
                           a \in Agreements, m \in Comments}

\* the rows longer batches are made of
BatchRows == {<<"E1", "Pickup Fee", "RA1", NaN>>, <<"E2", "Cancellation Fee", "RA1-2024", NaN>>,
              <<"E5", "Freight", "RA9", NaN>>, <<"E5", "Freight", "RA1", NaN>>,
              <<"E3", "DGR Fee", "RA1", "checked manually">>,
              <<"E1", "Cancellation Fee", "RA2", NaN>>}

RECURSIVE Batches(_)
Batches(n) == IF n = 0 THEN {<<>>}
              ELSE Batches(n - 1)
                   \cup {Append(b, r) : b \in {x \in Batches(n - 1) : Len(x) = n - 1},
                                        r \in BatchRows}

Init ==
    /\ df_mismatch \in {<<r>> : r \in SingleRows} \cup Batches(MaxRows)
    /\ idx = 1
    /\ state = "HasComment"
    /\ cost = NoCost
    /\ rate_by_values = <<>>
    /\ applies_if_values = <<>>
    /\ reasons = <<>>
    /\ accessorial_cache = <<>>
    /\ query = <<>>
    /\ result = <<>>

row == df_mismatch[idx]

cost_type == Clean(row, cost_type_col)

etof_number == Clean(row, etof_col_mismatch)

agreement == Clean(row, agreement_col_mismatch)

existing_comment == Clean(row, comment_col_mismatch)

\* a branch that appends its Reason and goes to the next row without the other two
EmitReasonOnly(rate_by, applies_if, outcome) ==
    /\ reasons' = Append(reasons, outcome.reason)
    /\ idx' = idx + 1
    /\ state' = "HasComment"
    /\ cost' = NoCost
    /\ UNCHANGED <<rate_by_values, applies_if_values>>

\* the three appends that end a row, or the exception that ends the loop
Emit(rate_by, applies_if, outcome) ==
    /\ IF outcome.raised
       THEN /\ state' = "Raised"
            /\ UNCHANGED <<idx, rate_by_values, applies_if_values, reasons>>
       ELSE /\ rate_by_values' = Append(rate_by_values, rate_by)
            /\ applies_if_values' = Append(applies_if_values, applies_if)
            /\ reasons' = Append(reasons, outcome.reason)
            /\ idx' = idx + 1
            /\ state' = "HasComment"
    /\ cost' = NoCost

HasComment ==
    /\ state = "HasComment"
    /\ idx <= Len(df_mismatch)
    /\ IF existing_comment # ""
       THEN \E shown \in {CommentDisplay(cost_type, agreement)} :
               Emit(shown[1], shown[2], Reason(existing_comment))
       ELSE /\ state' = "ResolveAgreement"
            /\ UNCHANGED <<idx, cost, rate_by_values, applies_if_values, reasons>>
    /\ UNCHANGED <<df_mismatch, accessorial_cache, query, result>>

ResolveAgreement ==
    /\ state = "ResolveAgreement"
    /\ IF AgreementData(agreement) = 0
       THEN Emit("", "", Reason("No rate cost data found for agreement: " \o agreement))
       ELSE /\ state' = "MatchCost"
            /\ UNCHANGED <<idx, cost, rate_by_values, applies_if_values, reasons>>
    /\ UNCHANGED <<df_mismatch, accessorial_cache, query, result>>

MatchCostStep ==
    /\ state = "MatchCost"
    /\ \E matched \in {MatchCost(cost_type, etof_number, agreement, accessorial_cache)} :
           /\ accessorial_cache' = matched.cache
           /\ IF matched.cost.found
              THEN /\ cost' = matched.cost
                   /\ state' = "EvaluateAppliesIf"
                   /\ UNCHANGED <<idx, rate_by_values, applies_if_values, reasons>>
              ELSE Emit("", "", Reason("Cost type '" \o cost_type
                                       \o "' not found in cost conditions"))
    /\ UNCHANGED <<df_mismatch, query, result>>

EvaluateAppliesIfStep ==
    /\ state = "EvaluateAppliesIf"
    /\ \E evaluated \in {EvaluateAppliesIf(cost.applies_if, etof_number)} :
           IF evaluated.met
           THEN /\ state' = "BranchOnRateBy"
                /\ UNCHANGED <<idx, cost, rate_by_values, applies_if_values, reasons>>
           ELSE Emit(cost.rate_by, cost.applies_if, Reason(evaluated.reason))
    /\ UNCHANGED <<df_mismatch, accessorial_cache, query, result>>

\* the per-shipment test made after the weight-based one
is_per_shipment_unless_weight ==
    /\ In("shipment", Lower(cost.rate_by))
    /\ ~(\/ In("weight", Lower(cost.rate_by)) \/ In("kg", Lower(cost.rate_by))
         \/ In("chargeable", Lower(cost.rate_by)))

is_per_shipment ==
    In("per shipment", Lower(cost.rate_by)) \/ In("shipment", Lower(cost.rate_by))

df_rate_data == all_rate_costs[AgreementData(agreement)].rate_data

PerShipmentStep ==
    /\ state = "BranchOnRateBy"
    /\ is_per_shipment
    /\ Emit(cost.rate_by, cost.applies_if,
            PerShipment(cost, cost_type, etof_number, df_rate_data))
    /\ UNCHANGED <<df_mismatch, accessorial_cache, query, result>>

PerUnitStep ==
    /\ state = "BranchOnRateBy"
    /\ ~is_per_shipment
    /\ Emit(cost.rate_by, cost.applies_if,
            PerUnit(cost, cost_type, etof_number, df_rate_data))
    /\ UNCHANGED <<df_mismatch, accessorial_cache, query, result>>

\* the loop is over: the lists become the columns Rate By, Applies If and Reason
AddColumns ==
    /\ state = "HasComment"
    /\ idx > Len(df_mismatch)
    /\ state' = "Done"
    /\ UNCHANGED <<df_mismatch, idx, cost, rate_by_values, applies_if_values, reasons,
                   accessorial_cache, query, result>>

Next ==
    \/ HasComment
    \/ ResolveAgreement
    \/ MatchCostStep
    \/ EvaluateAppliesIfStep
    \/ PerShipmentStep
    \/ PerUnitStep
    \/ AddColumns

Spec == Init /\ [][Next]_vars

Stages == {"HasComment", "ResolveAgreement", "MatchCost", "EvaluateAppliesIf",
           "BranchOnRateBy", "Done"}

\* the loop's position, a row and a stage, moves
Moves ==
    /\ state \in Stages \ {"Done"}
    /\ \E s \in Stages, i \in {idx, idx + 1} :
          /\ state' = s
          /\ idx' = i
          /\ <<s, i>> # <<state, idx>>

\* the interpreter keeps running the loop: it does not stop between two statements
FairSpec == Spec /\ WF_<<state, idx>>(Moves)

(***************************************************************************)
(* Two runs in one process.  After a batch, check_conditions_and_add_reason*)
(* is called again, on the same table or on one of its rows alone, with    *)
(* the accessorial cache as the first run left it or cleared.  result      *)
(* keeps what the first run gave for the rows of the second.               *)
(***************************************************************************)
RunRows == {<<"E1", "Waiting", "RA1", NaN>>, <<"E2", "Cancellation Fee", "RA1-2024", NaN>>,
            <<"E1", "Cancellation Fee", "RA2", NaN>>, <<"E1", "Pickup Fee", "RA1", NaN>>}

\* the rows of a batch that is run twice
MaxRunRows == 2

RECURSIVE RunBatches(_)
RunBatches(n) ==
    IF n = 0 THEN {<<>>}
    ELSE RunBatches(n - 1)
         \cup {Append(b, r) : b \in {x \in RunBatches(n - 1) : Len(x) = n - 1}, r \in RunRows}

InitRuns ==
    /\ df_mismatch \in RunBatches(MaxRunRows) \ {<<>>}
    /\ idx = 1
    /\ state = "HasComment"
    /\ cost = NoCost
    /\ rate_by_values = <<>>
    /\ applies_if_values = <<>>
    /\ reasons = <<>>
    /\ accessorial_cache = <<>>
    /\ query = <<>>
    /\ result = <<>>

\* the second call starts: the lists are new, the cache is a module global
SecondRun(cleared, whole, rows) ==
    /\ query' = [run |-> 2, cleared |-> cleared, whole |-> whole, rows |-> rows]
    /\ result' = [k \in 1..3 |-> [j \in 1..Len(rows) |->
                                     <<rate_by_values, applies_if_values, reasons>>[k][rows[j]]]]
    /\ df_mismatch' = [j \in 1..Len(rows) |-> df_mismatch[rows[j]]]
    /\ accessorial_cache' = IF cleared THEN <<>> ELSE accessorial_cache
    /\ idx' = 1
    /\ state' = "HasComment"
    /\ cost' = NoCost
    /\ rate_by_values' = <<>>
    /\ applies_if_values' = <<>>
    /\ reasons' = <<>>

\* the same table again
RunAgain ==
    /\ state = "Done"
    /\ query = <<>>
    /\ \E cleared \in BOOLEAN : SecondRun(cleared, TRUE, [j \in 1..Len(df_mismatch) |-> j])

\* one row of the table, alone
RunRowAlone ==
    /\ state = "Done"
    /\ query = <<>>
    /\ \E cleared \in BOOLEAN, i \in 1..Len(df_mismatch) : SecondRun(cleared, FALSE, <<i>>)

NextRuns ==
    \/ HasComment
    \/ ResolveAgreement
    \/ MatchCostStep
    \/ EvaluateAppliesIfStep
    \/ PerShipmentStep
    \/ PerUnitStep
    \/ AddColumns
    \/ RunAgain
    \/ RunRowAlone

SpecRuns == InitRuns /\ [][NextRuns]_vars

(***************************************************************************)
(* The matchers applied on their own: a cost type, a table and a shipment  *)
(* row go in, the candidates or the best candidate come out.               *)
(***************************************************************************)
SevillaCostConditions ==
    DataFrame(<<"Cost Name", "Rate By", "Applies If">>,
      << <<"Delivery Fee (Small van to Sevilla)", "PER SHIPMENT",
           "1. Carrier Name equals 'DHL'">>,
         <<"Delivery Fee (Getafe)", "PER SHIPMENT", "1. Carrier Name equals 'DHL'">>,
         <<"Delivery Fee (Madrid)", "PER SHIPMENT", "1. Origin Country equals 'ES'">>,
         <<"Delivery Fee (Illescas)", "PER SHIPMENT",
           "1. Carrier Name equals 'Bollore DE (EUR)'">>,
         <<"Delivery Fee (any other)", "Rate by: Weight/kg", NaN>>,
         <<" delivery fee ", "PER SHIPMENT", "No condition">>,
         <<"Delivery Fee", "PER SHIPMENT", "">>,
         <<"Air DGR Fee", "PER SHIPMENT", NaN>>,
         <<"DGR Fee (Hazardous)", "PER SHIPMENT", "1. Zone equals 'A'">>,
         <<"DGR", "PER SHIPMENT", "1. Carrier Name starts with 'Boll'">>,
         <<NaN, "PER SHIPMENT", NaN>> >>)

ConditionedCostConditions ==
    DataFrame(<<"Applies If", "Cost Name", "Rate By">>,
      << <<"1. Carrier Name equals 'Bollore DE (EUR)'", "Delivery Fee (Illescas)",
           "PER SHIPMENT">>,
         <<"1. Carrier Name equals 'Kuehne'", "Delivery Fee (Getafe)", "PER SHIPMENT">>,
         <<"1. Origin Country equals 'DE'", "DGR Fee (Lithium)", "PER SHIPMENT">>,
         <<"1. Origin Country equals 'ES'", "DGR Fee (Hazardous)", "PER SHIPMENT">>,
         <<"1. Carrier Name equals 'DHL'", "DGR Fee (Dry ice)", "PER SHIPMENT">>,
         <<"1. Zone equals 'A'", "Air DGR Fee", "PER SHIPMENT">> >>)

CostConditionTables == {RA1CostConditions, SevillaCostConditions, ConditionedCostConditions}

LaneAccessorial ==
    DataFrame(<<"Cost Name", "Rate By", "Lane #", "Price Flat">>,
      << <<"Air DGR Fee", "PER SHIPMENT", NaN, "90">>,
         <<"dgr fee", "PER SHIPMENT", "10", "70">>,
         <<"DGR Fee (Hazardous)", "PER SHIPMENT", "20", "80">>,
         <<"Delivery Fee (Getafe) night", "PER SHIPMENT", NaN, "15">>,
         <<"Waiting", "Rate by: Quantity/hour", NaN, NaN>> >>)

AccessorialTables == {RA1Accessorial, LaneAccessorial}

MatchQueries == {"DGR Fee", " dgr fee", "Air DGR Fee", "DGR Fee (Hazardous)", "Delivery Fee",
                 "Delivery Fee (Getafe)", "Delivery Fee (Getafe) night", "Fee", "Waiting"}

ShipmentRows == {etof_to_row_data(e) : e \in {"E1", "E2", "E9"}}

\* what a function applied on its own is given
MatchInputs ==
    {[op |-> op, cost_type |-> wanted, df |-> df, etof_row_data |-> EmptyRow] :
        op \in {"get_all_matching_cost_conditions"}, wanted \in MatchQueries,
        df \in CostConditionTables}
    \cup {[op |-> op, cost_type |-> wanted, df |-> df, etof_row_data |-> EmptyRow] :
            op \in {"get_all_matching_accessorial_costs"}, wanted \in MatchQueries,
            df \in AccessorialTables}
    \cup {[op |-> "find_best_matching_cost", cost_type |-> wanted, df |-> df,
           etof_row_data |-> etof_row_data] :
            wanted \in MatchQueries, df \in CostConditionTables,
            etof_row_data \in ShipmentRows}

\* the batch variables, which a function applied on its own leaves alone
Idle ==
    /\ df_mismatch = <<>>
    /\ idx = 1
    /\ cost = NoCost
    /\ rate_by_values = <<>>
    /\ applies_if_values = <<>>
    /\ reasons = <<>>
    /\ accessorial_cache = <<>>

batch == <<df_mismatch, idx, cost, rate_by_values, applies_if_values, reasons,
           accessorial_cache>>

InitMatch == Idle /\ state = "Called" /\ query \in MatchInputs /\ result = <<>>

\* the call returns
Return(value) ==
    /\ state = "Called"
    /\ result' = value
    /\ state' = "Returned"
    /\ UNCHANGED <<batch, query>>

AllMatchingCostConditions ==
    /\ query.op = "get_all_matching_cost_conditions"
    /\ Return(get_all_matching_cost_conditions(query.cost_type, query.df))

AllMatchingAccessorialCosts ==
    /\ query.op = "get_all_matching_accessorial_costs"
    /\ Return(get_all_matching_accessorial_costs(query.cost_type, query.df))

BestMatchingCost ==
    /\ query.op = "find_best_matching_cost"
    /\ Return(find_best_matching_cost(query.cost_type, query.df, query.etof_row_data))

NextMatch ==
    \/ AllMatchingCostConditions
    \/ AllMatchingAccessorialCosts
    \/ BestMatchingCost

SpecMatch == InitMatch /\ [][NextMatch]_vars

(***************************************************************************)
(* The price resolver applied on its own: rate tables with weight tiers, a *)
(* lane and a weight go in, the selected column or the price comes out.    *)
(***************************************************************************)
\* what a tier header states: its column, lower bound (if any) and upper bound
Range(col, has_lower, lower, upper) ==
    [col |-> col, has_lower |-> has_lower, lower |-> lower * Scale, upper |-> upper * Scale]

\* rate tables with their cost, the price type of its tiers and what the headers state
TierCards ==
    { [df |-> DataFrame(<<"Lane #", "Linehaul", "Price Flat <=200", "Price Flat >200 <=500",
                         "Price Flat >500 <=1000", "Pickup Fee", "Price Flat">>,
                        << <<"10", "EUR", "100.0", "180.0", "250.0", "EUR", "45.5">>,
                           <<"20", "EUR", "110.0", NaN, "260.0", "EUR", "46.5">> >>),
       cost_type |-> "Linehaul", price_type |-> "flat",
       ranges |-> <<Range(3, FALSE, 0, 200), Range(4, TRUE, 200, 500),
                    Range(5, TRUE, 500, 1000)>>],
      [df |-> DataFrame(<<"Lane #", "Linehaul", "Price Flat >500 <= 1000",
                         "Price Flat <= 200", "Price Flat >200 <=500.0">>,
                        << <<"10", "EUR", "250.0", "100.0", "180.0">>,
                           <<"20", "EUR", "260.0", "110.0", "190.0">> >>),
       cost_type |-> "Linehaul", price_type |-> "flat",
       ranges |-> <<Range(3, TRUE, 500, 1000), Range(4, FALSE, 0, 200),
                    Range(5, TRUE, 200, 500)>>],
      [df |-> DataFrame(<<"Lane #", "Freight", "Price per unit <=200",
                         "Price per unit >200 <=500", "Price per unit >500 <=1000",
                         "Price per unit MIN">>,
                        << <<"10", "EUR", "2.0", "1.8", "1.5", "300">>,
                           <<"20", "EUR", "2.5", "2.2", "abc", NaN>> >>),
       cost_type |-> "Freight", price_type |-> "per_unit",
       ranges |-> <<Range(3, FALSE, 0, 200), Range(4, TRUE, 200, 500),
                    Range(5, TRUE, 500, 1000)>>],
      [df |-> DataFrame(<<"Lane #", "Storage", "Price Flat <=200", "Price Flat >300 <=500">>,
                        << <<"10", "EUR", "12.0", "20.0">>,
                           <<"20", "EUR", "13.0", "21.0">> >>),
       cost_type |-> "Storage", price_type |-> "flat",
       ranges |-> <<Range(3, FALSE, 0, 200), Range(4, TRUE, 300, 500)>>] }

Weights == {"0", "199.99", "200", "200.0", "200.01", "200.5", "300", "300.01", "500",
            "500.01", "1000", "1000.0", "1000.01", "1500", "abc", NaN}

TierInputs ==
    {[op |-> op, card |-> card, lane_number |-> lane_number, charge_weight |-> w] :
        op \in {"select_price_column_by_weight", "find_cost_price_in_rate_data"},
        card \in TierCards, lane_number \in {"10", "20", "30"}, w \in Weights \cup {None}}

\* rate tables in the contiguous layout: each cost's name column (listed in names) is
\* followed by that cost's own columns; every price cell of a row is different
LookupTables ==
    { [df |-> DataFrame(<<"Lane #", "Pickup Fee", "Price Flat", "Price per unit",
                         "Price Flat MIN", "Price Flat MAX", "Delivery Fee", "Price Flat">>,
                        << <<"10", "EUR", "45.5", "1.5", "30.0", "90.0", "USD", "12.0">>,
                           <<"20", "EUR", "46.5", "1.6", NaN, "abc", "USD", "13.0">> >>),
       names |-> <<2, 7>>],
      [df |-> DataFrame(<<"Lane #", "Pickup Fee", "Currency", "Price Flat", "Delivery Fee",
                         "Currency", "Price Flat">>,
                        << <<"10", "Pickup", "EUR", "45.5", "Delivery", "USD", "12.0">>,
                           <<"20", "Pickup", "GBP", "46.5", "Delivery", "CHF", "13.0">> >>),
       names |-> <<2, 5>>],
      [df |-> DataFrame(<<"Lane #", "Handling", "Price Flat", "Freight", "Price per unit",
                         "Price Flat MIN", "Price Flat MAX">>,
                        << <<"10", "EUR", "25.0", "USD", "1.5", "30.0", "90.0">>,
                           <<"20", "EUR", "26.0", "USD", "1.6", "31.0", "91.0">> >>),
       names |-> <<2, 4>>],
      [df |-> DataFrame(<<"Lane #", "Surcharge", "Linehaul", "Price Flat">>,
                        << <<"10", "EUR", "USD", "100.0">>,
                           <<"20", "EUR", "USD", "110.0">> >>),
       names |-> <<2, 3>>] }

PriceTypes == {"flat", "per_unit", "min", "max"}

LookupInputs ==
    {[op |-> "find_cost_price_in_rate_data by price type", table |-> t, cost |-> k,
      price_type |-> price_type, lane_number |-> lane_number, charge_weight |-> w] :
        t \in LookupTables, k \in 1..2, price_type \in PriceTypes,
        lane_number \in {"10", "20"}, w \in {None, "120"}}

InitTier ==
    Idle /\ state = "Called" /\ query \in TierInputs \cup LookupInputs /\ result = <<>>

SelectPriceColumnByWeight ==
    /\ query.op = "select_price_column_by_weight"
    /\ Return(select_price_column_by_weight(
                  find_weight_tiered_price_columns(
                      query.card.df.columns,
                      CostColumn(query.card.df.columns, query.card.cost_type),
                      query.card.price_type),
                  query.charge_weight))

FindCostPriceInRateData ==
    /\ query.op = "find_cost_price_in_rate_data"
    /\ Return(find_cost_price_in_rate_data(query.card.df, query.lane_number,
                                           query.card.cost_type, query.card.price_type,
                                           query.charge_weight))

\* the lookup of one price type for one cost of a table in the contiguous layout
FindCostPriceOfType ==
    /\ query.op = "find_cost_price_in_rate_data by price type"
    /\ Return(find_cost_price_in_rate_data(
                  query.table.df, query.lane_number,
                  query.table.df.columns[query.table.names[query.cost]],
                  query.price_type, query.charge_weight))

NextTier ==
    \/ SelectPriceColumnByWeight
    \/ FindCostPriceInRateData
    \/ FindCostPriceOfType

SpecTier == InitTier /\ [][NextTier]_vars

(***************************************************************************)
(* The per-unit total applied on its own: a price per unit, a multiplier,  *)
(* a MIN and a MAX go in, the Reason comes out.                            *)
(***************************************************************************)
UnitPrices == {"2.0", "1.5", "abc"}

Multipliers == {"100", "130", "150.5", "400", "x", NaN}

MinPrices == {None, "300", "250.0", "abc"}

MaxPrices == {None, "250", "500", "abc"}

TotalInputs ==
    {[op |-> op, price_per_unit |-> p, multiplier_value |-> v, min_price |-> lo,
      max_price |-> hi] :
        op \in {"rate card"}, p \in UnitPrices, v \in Multipliers, lo \in MinPrices,
        hi \in MaxPrices}
    \cup
    {[op |-> op, price_per_unit |-> p, multiplier_value |-> v, min_price |-> lo,
      max_price |-> None] :
        op \in {"accessorial"}, p \in UnitPrices, v \in Multipliers, lo \in MinPrices}

InitTotal == Idle /\ state = "Called" /\ query \in TotalInputs /\ result = <<>>

\* the multiplier as ResolveMultiplier hands it on for a weight-based rate basis
WeightMultiplier(value) ==
    [value |-> value, name |-> "CHARGE_WEIGHT",
     not_found |-> IF isna(value) THEN "CHARGE_WEIGHT not found for ETOF E1" ELSE None,
     is_weight_based |-> TRUE]

RateCardTotal ==
    /\ query.op = "rate card"
    /\ Return(ComputeTotal("", query.price_per_unit, "Price per unit", query.min_price,
                           query.max_price, WeightMultiplier(query.multiplier_value),
                           "E1"))

AccessorialTotal ==
    /\ query.op = "accessorial"
    /\ Return(ComputeTotal(" (accessorial)", query.price_per_unit, None, query.min_price,
                           None, WeightMultiplier(query.multiplier_value), "E1"))

NextTotal ==
    \/ RateCardTotal
    \/ AccessorialTotal

SpecTotal == InitTotal /\ [][NextTotal]_vars

(***************************************************************************)
(* The condition parser, the evaluator and the engine's Applies If gate    *)
(* applied on their own: a text, or a condition list and a shipment row,   *)
(* go in; the condition list, or the verdict, comes out.                   *)
(***************************************************************************)
AppliesIfTexts ==
    {NaN, None, "", "  ", "No condition", "NO CONDITION applies",
     "Applies if invoiced by Carrier", "Only for road freight",
     "1. Carrier Name equals DHL",
     "1. Carrier Name equals 'DHL'",
     "1. Carrier Name equals 'dhl', 'Kuehne' 2. Origin Country does not equal to 'FR'",
     "1. Origin Country contains 'E' and Carrier Name starts with 'Bol'",
     "1. Carrier Name does not contain 'Bollore'",
     "1. Carrier Name equals ' DHL'",
     "1. Origin Country equals 'DE' 2. Country equals 'ES'",
     "1. Zone equals 'A' in all items",
     "No condition (Carrier Name equals 'Kuehne')",
     "Applies if invoiced by Carrier and Carrier Name equals 'Kuehne'",
     "Applies if invoiced by Carrier and Origin Country does not equal 'ES'",
     "Applies if invoiced by Carrier and Origin Country does not contain 'ES'",
     "Applies if invoiced by carrier and Zone equal 'A'",
     "1. Carrier Name equals 'Kuehne' 2. Zone equals 'A' 3. Origin Country equals 'DE'"}

\* single clauses: a column name, a comparison phrase and one quoted value, with the
\* condition type the phrase stands for
ClauseColumns == {"Carrier Name", "Origin Country", "Equals Flag", "Container Type"}

ClausePhrases ==
    {<<"does not equal", "does_not_equal">>, <<"does not equal to", "does_not_equal">>,
     <<"Does Not Equal", "does_not_equal">>, <<"does not contain", "does_not_contain">>,
     <<"equals", "equals">>, <<"equal to", "equals">>, <<"starts with", "starts_with">>,
     <<"contains", "contains">>}

ClauseValues == {"DHL", "equals", "a contains b"}

Clauses ==
    {[text |-> c \o " " \o p[1] \o " '" \o v \o "'", column_name |-> c,
      condition_type |-> p[2], value |-> v] :
        c \in ClauseColumns, p \in ClausePhrases, v \in ClauseValues}

ConditionTypes == {"equals", "does_not_equal", "starts_with", "contains", "does_not_contain"}

\* one condition, as a rule with a single clause parses to
SingleConditions ==
    {[column_name |-> c, condition_type |-> k, expected_values |-> v] :
        c \in {"Carrier Name", "Origin Country", "MEASUREMENT", "Zone"},
        k \in ConditionTypes,
        v \in {<<"dhl">>, <<"DHL", "Kuehne">>, <<"e">>, <<"ES", "FR">>, <<"">>,
               <<"Quantity">>}}

\* rows whose keys match a column name in more than one way, and conditions on them
ResolutionRows ==
    {[columns |-> <<"Origin Country", "Country">>, vals |-> <<"DE", "ES">>],
     [columns |-> <<"Country", "Origin Country">>, vals |-> <<"ES", "DE">>],
     [columns |-> <<"Origin Country", "SHIP_COUNTRY">>, vals |-> <<"DE", "FR">>],
     [columns |-> <<"Carrier", "carrier_name">>, vals |-> <<"X", "DHL">>],
     [columns |-> <<"carrier_name", "Carrier">>, vals |-> <<"DHL", "X">>],
     [columns |-> <<"Carrier Name Long", "CARRIER NAME">>, vals |-> <<"X", "DHL">>]}

ResolutionConditions ==
    {[column_name |-> c, condition_type |-> "equals", expected_values |-> <<v>>] :
        c \in {"Country", "Origin Country", "Carrier Name"},
        v \in {"ES", "DE", "FR", "DHL", "X"}}

\* the rows that hold, under each condition's column name and in the order of the
\* conditions, one of that condition's expected values
RoundTripRows(conditions) ==
    LET n == Len(conditions)
        Picks == {k \in [1..n -> UNION {1..Len(conditions[i].expected_values) : i \in 1..n}] :
                     \A i \in 1..n : k[i] <= Len(conditions[i].expected_values)}
    IN  IF n = 0 THEN {}
        ELSE {[columns |-> [i \in 1..n |-> conditions[i].column_name],
               vals |-> [i \in 1..n |-> conditions[i].expected_values[k[i]]]] : k \in Picks}

CondQuery(op, applies_if_text, conditions, etof, df_lc_etof_row) ==
    [op |-> op, applies_if_text |-> applies_if_text, conditions |-> conditions,
     etof_number |-> etof, df_lc_etof_row |-> df_lc_etof_row]

CondInputs ==
    {CondQuery("parse_applies_if_condition", t, <<>>, "", EmptyRow) :
        t \in AppliesIfTexts \cup {c.text : c \in Clauses}}
    \cup
    {CondQuery("check_applies_if_condition", t, parse_applies_if_condition(t), e,
               etof_to_row_data(e)) :
        t \in AppliesIfTexts, e \in {"E1", "E2", "E3", "E5"}}
    \cup
    UNION {{CondQuery("check_applies_if_condition", t, parse_applies_if_condition(t), "E1", r) :
               r \in RoundTripRows(parse_applies_if_condition(t))} : t \in AppliesIfTexts}
    \cup
    {CondQuery("check_applies_if_condition", "", <<c>>, e, etof_to_row_data(e)) :
        c \in SingleConditions, e \in {"E1", "E2", "E3", "E5"}}
    \cup
    {CondQuery("check_applies_if_condition", "", <<c>>, "E1", r) :
        c \in ResolutionConditions, r \in ResolutionRows}
    \cup
    {CondQuery("check_conditions_and_add_reason", t, <<>>, e, EmptyRow) :
        t \in AppliesIfTexts \ {None}, e \in {"E1", "E2", "E9"}}

InitCond == Idle /\ state = "Called" /\ query \in CondInputs /\ result = <<>>

ParseAppliesIfCondition ==
    /\ query.op = "parse_applies_if_condition"
    /\ Return(parse_applies_if_condition(query.applies_if_text))

CheckAppliesIfCondition ==
    /\ query.op = "check_applies_if_condition"
    /\ Return(check_applies_if_condition(query.conditions, query.etof_number,
                                         query.df_lc_etof_row))

\* the Applies If gate of check_conditions_and_add_reason, for one rule text and one row
AppliesIfGate ==
    /\ query.op = "check_conditions_and_add_reason"
    /\ Return(EvaluateAppliesIf(query.applies_if_text, query.etof_number))

NextCond ==
    \/ ParseAppliesIfCondition
    \/ CheckAppliesIfCondition
    \/ AppliesIfGate

SpecCond == InitCond /\ [][NextCond]_vars

(***************************************************************************)
(* The accessorial cache on its own: main clears it, then the batch asks   *)
(* for the sheet of one agreement after the other.  The log keeps, per     *)
(* access, the agreement asked for, the file opened and the sheet handed   *)
(* back.                                                                   *)
(***************************************************************************)
AccessAgreements == {"RA1", "RA1-2024", "RA2", "RA2-B", "RA9"}

\* the accesses of one batch
MaxAccesses == 3

RECURSIVE AccessOrders(_)
AccessOrders(n) ==
    IF n = 0 THEN {<<>>}
    ELSE AccessOrders(n - 1)
         \cup {Append(b, a) : b \in {x \in AccessOrders(n - 1) : Len(x) = n - 1},
                              a \in AccessAgreements}

\* what an earlier batch of the same process can have left in the cache
EarlierCaches == {<<>>, "RA1" :> RA1Accessorial, ("RA1" :> RA1Accessorial) @@ ("RA2" :> NoneFrame)}

InitCache ==
    /\ df_mismatch = <<>>
    /\ idx = 1
    /\ cost = NoCost
    /\ rate_by_values = <<>>
    /\ applies_if_values = <<>>
    /\ reasons = <<>>
    /\ accessorial_cache \in EarlierCaches
    /\ state = "Called"
    /\ query \in AccessOrders(MaxAccesses) \ {<<>>}
    /\ result = <<>>

clear_accessorial_cache ==
    /\ state = "Called"
    /\ accessorial_cache' = <<>>
    /\ state' = "Cleared"
    /\ UNCHANGED <<df_mismatch, idx, cost, rate_by_values, applies_if_values, reasons,
                   query, result>>

GetAccessorialData ==
    /\ state = "Cleared"
    /\ query # <<>>
    /\ \E got \in {get_accessorial_data_for_agreement(Head(query), accessorial_cache)} :
          /\ accessorial_cache' = got.cache
          /\ result' = Append(result, [agreement |-> Head(query), opened |-> got.opened,
                                       df |-> got.df])
    /\ query' = Tail(query)
    /\ UNCHANGED <<df_mismatch, idx, state, cost, rate_by_values, applies_if_values, reasons>>

NextCache ==
    \/ clear_accessorial_cache
    \/ GetAccessorialData

SpecCache == InitCache /\ [][NextCache]_vars

(***************************************************************************)
(* Properties of the matchers                                              *)
(***************************************************************************)
\* the Cost Name cells of a table, trimmed, in table order
CandidateNames(df) ==
    LET c == CHOOSE i \in 1..Len(df.columns) : Lower(df.columns[i]) = "cost name"
    IN  [i \in 1..Len(df.data) |-> Strip(df.data[i][c])]

\* the four rules: equal, equal base names, candidate starts with the query, the query
\* starts with the candidate; all on trimmed lower-case names
NameRules(candidate, wanted) ==
    LET c == Lower(Strip(candidate))
        q == Lower(Strip(wanted))
    IN  \/ c = q
        \/ BaseName(c) = BaseName(q)
        \/ StartsWith(c, q)
        \/ StartsWith(q, c)

ReturnedNames == [i \in 1..Len(result) |-> result[i][1]]

\* C7: get_all_matching_cost_conditions and get_all_matching_accessorial_costs return
\* exactly the candidates of the table, in table order, whose name satisfies one of the
\* four name rules against the query; for the query "DGR Fee" the candidate "Air DGR Fee"
\* is never returned and the candidate "DGR Fee (Hazardous)" always is.
C7_CandidateFiltering ==
    (/\ state = "Returned"
     /\ query.op \in {"get_all_matching_cost_conditions",
                      "get_all_matching_accessorial_costs"})
    => /\ ReturnedNames
          = SelectSeq(CandidateNames(query.df), LAMBDA c : NameRules(c, query.cost_type))
       /\ Lower(Strip(query.cost_type)) = "dgr fee"
          => /\ \A i \in 1..Len(result) : result[i][1] # "Air DGR Fee"
             /\ \A j \in 1..Len(query.df.data) :
                   CandidateNames(query.df)[j] = "DGR Fee (Hazardous)"
                   => \E i \in 1..Len(result) : result[i][1] = "DGR Fee (Hazardous)"

\* the accessorial table that lists "Air DGR Fee", "dgr fee" and "DGR Fee (Hazardous)" was
\* asked for "DGR Fee" and returned the last two
C7_Witness ==
    /\ state = "Returned"
    /\ query.op = "get_all_matching_accessorial_costs"
    /\ query.cost_type = "DGR Fee"
    /\ query.df = LaneAccessorial
    /\ ReturnedNames = <<"dgr fee", "DGR Fee (Hazardous)">>

\* the earliest of the longest-named and of the shortest-named candidates
EarliestLongest(ms) ==
    ms[CHOOSE i \in 1..Len(ms) :
         \A j \in 1..Len(ms) : \/ Len(ms[j][1]) < Len(ms[i][1])
                               \/ (Len(ms[j][1]) = Len(ms[i][1]) /\ i <= j)]

EarliestShortest(ms) ==
    ms[CHOOSE i \in 1..Len(ms) :
         \A j \in 1..Len(ms) : \/ Len(ms[j][1]) > Len(ms[i][1])
                               \/ (Len(ms[j][1]) = Len(ms[i][1]) /\ i <= j)]

\* the candidate has a parseable condition and the shipment row satisfies it
Satisfied(m, etof_row_data) ==
    /\ parse_applies_if_condition(m[3]) # <<>>
    /\ check_applies_if_condition(parse_applies_if_condition(m[3]), "check",
                                  etof_row_data).is_met

Unconditioned(m) == parse_applies_if_condition(m[3]) = <<>>

\* the choice among several candidates, given which of them count as without condition
Chosen(candidates, satisfied, without) ==
    IF satisfied # <<>> THEN EarliestLongest(satisfied)
    ELSE IF without # <<>> THEN EarliestShortest(without)
    ELSE candidates[1]

SeveralCandidates ==
    /\ state = "Returned"
    /\ query.op = "find_best_matching_cost"
    /\ Len(get_all_matching_cost_conditions(query.cost_type, query.df)) > 1

\* C9 as stated: among several name-matching candidates find_best_matching_cost returns
\* the earliest longest-named of those whose condition the shipment row satisfies, else
\* the earliest shortest-named of those without a parseable condition, else the first
\* candidate; the result is one of the candidates.
C9_AsStated ==
    SeveralCandidates
    => LET candidates == get_all_matching_cost_conditions(query.cost_type, query.df)
       IN  /\ result
              = Chosen(candidates,
                       SelectSeq(candidates, LAMBDA m : Satisfied(m, query.etof_row_data)),
                       SelectSeq(candidates, Unconditioned))
           /\ \E i \in 1..Len(candidates) : result = candidates[i]

\* C9: the same choice, where for an empty shipment row no condition is evaluated and
\* every candidate counts as one without condition: the earliest shortest-named of all
\* candidates is returned then.
C9_BestMatch ==
    SeveralCandidates
    => LET candidates == get_all_matching_cost_conditions(query.cost_type, query.df)
       IN  /\ result
              = Chosen(candidates,
                       SelectSeq(candidates, LAMBDA m : Satisfied(m, query.etof_row_data)),
                       SelectSeq(candidates,
                                 LAMBDA m : \/ Unconditioned(m)
                                            \/ query.etof_row_data = EmptyRow))
           /\ \E i \in 1..Len(candidates) : result = candidates[i]

\* three delivery fees hold for the DHL shipment from ES; the longest-named is returned
C9_Witness ==
    /\ SeveralCandidates
    /\ query.df = SevillaCostConditions
    /\ query.cost_type = "Delivery Fee"
    /\ query.etof_row_data = etof_to_row_data("E1")
    /\ Len(SelectSeq(get_all_matching_cost_conditions(query.cost_type, query.df),
                     LAMBDA m : Satisfied(m, query.etof_row_data))) > 1
    /\ result[1] = "Delivery Fee (Small van to Sevilla)"

(***************************************************************************)
(* Properties of the weight tiers                                          *)
(***************************************************************************)
\* the weight is a number
Numeric(charge_weight) ==
    charge_weight # None /\ Float(charge_weight).ok /\ ~Float(charge_weight).nan

\* lower < weight <= upper, and weight <= upper for a tier without lower bound
Within(range, weight) ==
    /\ range.has_lower => range.lower < weight
    /\ weight <= range.upper

LargestUpper(ranges) ==
    CHOOSE u \in {ranges[i].upper : i \in 1..Len(ranges)} :
        \A i \in 1..Len(ranges) : ranges[i].upper <= u

\* the column of the range with the given upper bound
ColumnUpTo(ranges, upper) ==
    ranges[CHOOSE i \in 1..Len(ranges) : ranges[i].upper = upper * Scale].col

\* C10: select_price_column_by_weight selects a tier only if lower < weight <= upper
\* (weight <= upper without lower bound) and selects one whenever such a tier exists;
\* with the upper bounds 200, 500 and 1000 the weight 200 selects the tier up to 200 and
\* a weight just above 200 the tier from 200 to 500; a weight above the largest upper
\* bound selects nothing, and find_cost_price_in_rate_data then returns no price but,
\* for a lane of the table, a reason "CHARGE_WEIGHT <w> exceeds max tier <u> ...".
C10_TierSelection ==
    (state = "Returned" /\ Numeric(query.charge_weight))
    => LET weight == Float(query.charge_weight).v
           ranges == query.card.ranges
       IN  /\ query.op = "select_price_column_by_weight"
              => /\ result.col_idx # 0
                    => \E i \in 1..Len(ranges) :
                          ranges[i].col = result.col_idx /\ Within(ranges[i], weight)
                 /\ (\E i \in 1..Len(ranges) : Within(ranges[i], weight))
                    => result.col_idx # 0
                 /\ (Len(ranges) = 3 /\ weight = 200 * Scale)
                    => result.col_idx = ColumnUpTo(ranges, 200)
                 /\ (Len(ranges) = 3 /\ weight > 200 * Scale /\ weight <= 201 * Scale)
                    => result.col_idx = ColumnUpTo(ranges, 500)
                 /\ weight > LargestUpper(ranges)
                    => /\ result.col_idx = 0
                       /\ StartsWith(result.range_desc, "exceeds max tier ")
           /\ (query.op = "find_cost_price_in_rate_data" /\ weight > LargestUpper(ranges))
              => /\ result.price = None
                 /\ query.lane_number \in {"10", "20"}
                    => StartsWith(result.reason,
                                  "CHARGE_WEIGHT " \o query.charge_weight
                                  \o " exceeds max tier ")

\* lane 10 of the table with the tiers up to 200, 500 and 1000 was asked for the weight
\* 1000.01 and answered with the reason and no price
C10_Witness ==
    /\ state = "Returned"
    /\ query.op = "find_cost_price_in_rate_data"
    /\ query.card.cost_type = "Linehaul"
    /\ query.lane_number = "10"
    /\ query.charge_weight = "1000.01"
    /\ result.price = None
    /\ result.reason = "CHARGE_WEIGHT 1000.01 exceeds max tier 1000.0 for cost 'Linehaul'"

\* the range a header of the table states for the named column, if any
RangesOfColumn(card, col) ==
    {i \in 1..Len(card.ranges) : card.df.columns[card.ranges[i].col] = col}

\* the upper bound of the tier select_price_column_by_weight picks for a weight; 0: none
SelectedUpper(card, charge_weight) ==
    LET Upper(sel) ==
            IF sel.col_idx = 0 THEN 0
            ELSE card.ranges[CHOOSE i \in 1..Len(card.ranges) :
                                card.ranges[i].col = sel.col_idx].upper
    IN  Upper(select_price_column_by_weight(
                  find_weight_tiered_price_columns(
                      card.df.columns, CostColumn(card.df.columns, card.cost_type),
                      card.price_type),
                  charge_weight))

\* C11 as stated: for a weight-tiered cost and every CHARGE_WEIGHT value given to the
\* lookup of a lane of the table, the outcome is one tier column whose range contains
\* the weight or the "exceeds max tier" failure, never another column; and a larger
\* weight never selects a tier with a smaller upper bound than a smaller weight does.
C11_TotalAndMonotonic ==
    (state = "Returned" /\ query.charge_weight # None)
    => LET card == query.card
           w == Float(query.charge_weight)
       IN  /\ (query.op = "find_cost_price_in_rate_data"
               /\ query.lane_number \in {"10", "20"})
              => \/ /\ result.col # None
                    /\ w.ok /\ ~w.nan
                    /\ \E i \in RangesOfColumn(card, result.col) :
                          Within(card.ranges[i], w.v)
                 \/ /\ result.price = None
                    /\ result.col = None
                    /\ In("exceeds max tier", result.reason)
           /\ (query.op = "select_price_column_by_weight" /\ Numeric(query.charge_weight))
              => \A larger \in {x \in Weights : Numeric(x) /\ Float(x).v >= w.v} :
                    \/ result.col_idx = 0
                    \/ SelectedUpper(card, larger) = 0
                    \/ SelectedUpper(card, larger) >= SelectedUpper(card, query.charge_weight)

\* lane 10 of the table with the tiers up to 200, 500 and 1000 was asked for a missing
\* weight and answered with the price of the column next to the cost, without a reason
C11_Witness ==
    /\ state = "Returned"
    /\ query.op = "find_cost_price_in_rate_data"
    /\ query.card.df.columns[3] = "Price Flat <=200"
    /\ query.lane_number = "10"
    /\ query.charge_weight = NaN
    /\ result.price = "100.0"
    /\ result.col = "Price Flat <=200"
    /\ result.reason = None

\* the lookup of one price type for one cost has returned
LookedUp == state = "Returned" /\ query.op = "find_cost_price_in_rate_data by price type"

\* the columns after the name column of the cost asked for, up to `window` of them
ColumnsAfter(window) ==
    LET c == query.table.names[query.cost]
    IN  {i \in (c + 1)..Min(c + window, Len(query.table.df.columns)) : TRUE}

\* the cost's own columns: those after its name column and before the next cost's
OwnColumns ==
    LET names == query.table.names
        n == Len(query.table.df.columns)
    IN  {i \in ColumnsAfter(n) :
           \A k \in 1..Len(names) : names[k] > names[query.cost] => i < names[k]}

\* the cell of the lane asked for in column i
LaneCell(i) ==
    LET df == query.table.df
    IN  df.data[CHOOSE r \in 1..Len(df.data) : df.data[r][1] = query.lane_number][i]

\* C25: a flat lookup on a cost without applicable weight tiers returns the value of
\* the first column, among the 10 after the cost's name column, whose header matches
\* "Price Flat", and never a column whose header does not denote a flat price.
C25_FlatByHeader ==
    (LookedUp /\ query.price_type = "flat")
    => LET Flat == {i \in ColumnsAfter(10) :
                      In("price flat", Lower(query.table.df.columns[i]))}
       IN  /\ result.col # None => In("price flat", Lower(result.col))
           /\ Flat # {}
              => result.price = LaneCell(CHOOSE i \in Flat : \A j \in Flat : i <= j)

\* the flat price of 'Pickup Fee' was asked of the table whose 'Pickup Fee' column is
\* followed by 'Currency' and 'Price Flat': the currency came back as the price
C25_Witness ==
    /\ LookedUp
    /\ query.price_type = "flat"
    /\ query.table.df.columns[3] = "Currency"
    /\ query.cost = 1
    /\ query.lane_number = "10"
    /\ result = PriceResult("EUR", "Currency", None)

\* C30: in a rate table with the contiguous layout a flat, per-unit, MIN or MAX lookup
\* for a cost returns a value only from one of that cost's own columns, never from a
\* column at or after the next cost's name column, also when the cost lacks the
\* requested column.
C30_OwnColumnsOnly ==
    (LookedUp /\ result.price # None)
    => \E i \in OwnColumns :
          /\ result.price = LaneCell(i)
          /\ result.col = query.table.df.columns[i]

\* the MIN of 'Handling', which has a 'Price Flat' column only, was asked: the MIN of
\* the next cost, 'Freight', came back
C30_Witness ==
    /\ LookedUp
    /\ query.price_type = "min"
    /\ query.table.df.columns[2] = "Handling"
    /\ query.cost = 1
    /\ query.lane_number = "10"
    /\ OwnColumns = {3}
    /\ result = PriceResult("30.0", "Price Flat MIN", None)

(***************************************************************************)
(* Properties of the per-unit total                                        *)
(***************************************************************************)
\* C12: with total = price per unit * multiplier, the Reason is the MIN template iff
\* there is a numeric MIN and total < MIN; otherwise the MAX template iff there is a
\* numeric MAX and total > MAX; otherwise the plain total; so when the total is below
\* MIN and above MAX at once, MIN is reported.
C12_MinBeforeMax ==
    (/\ state = "Returned"
     /\ query.op \in {"rate card", "accessorial"}
     /\ Numeric(query.price_per_unit)
     /\ Numeric(query.multiplier_value))
    => LET price == Float(query.price_per_unit).v
           multiplier == Float(query.multiplier_value).v
           below == /\ Numeric(query.min_price)
                    /\ price * multiplier < Float(query.min_price).v * Scale
           above == /\ Numeric(query.max_price)
                    /\ price * multiplier > Float(query.max_price).v * Scale
           tag == IF query.op = "accessorial" THEN " (accessorial)" ELSE ""
       IN  /\ ~result.raised
           /\ StartsWith(result.reason, "MIN price applied" \o tag \o " - ") <=> below
           /\ StartsWith(result.reason, "MAX price applied - ") <=> (~below /\ above)
           /\ (~below /\ ~above)
              => result.reason
                 = "Cost per unit" \o tag \o ": " \o query.price_per_unit
                   \o ", CHARGE_WEIGHT: " \o query.multiplier_value \o ", Total: "
                   \o query.price_per_unit \o " * " \o query.multiplier_value \o " = "
                   \o Fmt2(Times(price, multiplier))

\* a total of 260 was below the MIN of 300 and above the MAX of 250: MIN is reported
C12_Witness ==
    /\ state = "Returned"
    /\ query.op = "rate card"
    /\ query.price_per_unit = "2.0"
    /\ query.multiplier_value = "130"
    /\ query.min_price = "300"
    /\ query.max_price = "250"
    /\ result.reason = "MIN price applied - 300 (Calculated: 2.0 * 130 (CHARGE_WEIGHT) = 260.00, but MIN is higher)"

(***************************************************************************)
(* Properties of the condition parser and evaluator                        *)
(***************************************************************************)
\* a list of conditions: a column name, one of the five comparisons and at least
\* one expected value each
IsConditionList(conditions) ==
    /\ DOMAIN conditions = 1..Len(conditions)
    /\ \A i \in 1..Len(conditions) :
          /\ DOMAIN conditions[i] = {"column_name", "condition_type", "expected_values"}
          /\ conditions[i].condition_type \in ConditionTypes
          /\ Len(conditions[i].expected_values) >= 1

\* a text that states no condition: null, blank, "no condition", or no quoted value
\* after any comparison word
StatesNoCondition(applies_if_text) ==
    \/ applies_if_text \in {NaN, None}
    \/ Strip(applies_if_text) = ""
    \/ In("no condition", Lower(applies_if_text))
    \/ ~In("'", applies_if_text)
    \/ \A word \in {"equal", "start", "contain"} : ~In(word, Lower(applies_if_text))

\* C14: parsing is total.  Every text parses to a list of conditions; a null,
\* blank or "no condition" text and a text none of whose clauses parses give the
\* empty list; the empty list is always met, with no reason; and the engine lets
\* a rule whose text gives no condition through to the price, as it does the rule
\* with no text at all.
C14_ParsingIsTotal ==
    state = "Returned" =>
        /\ query.op = "parse_applies_if_condition" =>
              /\ IsConditionList(result)
              /\ StatesNoCondition(query.applies_if_text) => result = <<>>
        /\ (query.op = "check_applies_if_condition" /\ query.conditions = <<>>) =>
              result = [is_met |-> TRUE, reason |-> None]
        /\ (query.op = "check_conditions_and_add_reason"
            /\ parse_applies_if_condition(query.applies_if_text) = <<>>) =>
              /\ result = [met |-> TRUE, reason |-> None]
              /\ result = EvaluateAppliesIf("", query.etof_number)

\* the engine let a rule whose text has no parseable clause through, for a
\* shipment that is not even in the shipment table
C14_Witness ==
    /\ state = "Returned"
    /\ query.op = "check_conditions_and_add_reason"
    /\ query.applies_if_text = "Only for road freight"
    /\ parse_applies_if_condition(query.applies_if_text) = <<>>
    /\ query.etof_number = "E9"
    /\ result.met

\* the evaluator was handed what the parser made of the text, and a row that holds
\* one expected value under each condition's column name
RoundTrip ==
    /\ state = "Returned"
    /\ query.op = "check_applies_if_condition"
    /\ query.conditions = parse_applies_if_condition(query.applies_if_text)
    /\ query.df_lc_etof_row \in RoundTripRows(query.conditions)

PositiveTypes == {"equals", "starts_with", "contains"}

\* condition i is looked up in its own cell, and its values carry no outer blanks
OwnCell(i) ==
    /\ ResolveColumn(query.conditions[i].column_name, query.df_lc_etof_row) = i
    /\ \A j \in 1..Len(query.conditions[i].expected_values) :
          Strip(query.conditions[i].expected_values[j]) = query.conditions[i].expected_values[j]

SingleResolved ==
    /\ state = "Returned"
    /\ query.op = "check_applies_if_condition"
    /\ Len(query.conditions) = 1
    /\ Len(query.conditions[1].expected_values) >= 1
    /\ ResolveColumn(query.conditions[1].column_name, query.df_lc_etof_row) # 0

\* the verdict on the same column, values and row under another comparison
MetAs(condition_type) ==
    check_applies_if_condition(<<[query.conditions[1] EXCEPT !.condition_type = condition_type]>>,
                               query.etof_number, query.df_lc_etof_row).is_met

\* the verdict when the expected values are written in lower case
MetInLowerCase ==
    check_applies_if_condition(
        <<[query.conditions[1] EXCEPT
              !.expected_values = [j \in 1..Len(@) |-> Lower(@[j])]]>>,
        query.etof_number, query.df_lc_etof_row).is_met

\* the verdict when the missing cells of the row hold the empty text instead
MetWithEmptyCells ==
    check_applies_if_condition(
        query.conditions, query.etof_number,
        [query.df_lc_etof_row EXCEPT
            !.vals = [c \in 1..Len(@) |-> IF @[c] = None \/ isna(@[c]) THEN "" ELSE @[c]]]).is_met

\* the verdict when the cells of the row are written in lower case
MetWithLowerCells ==
    check_applies_if_condition(
        query.conditions, query.etof_number,
        [query.df_lc_etof_row EXCEPT
            !.vals = [c \in 1..Len(@) |-> IF @[c] = None \/ isna(@[c]) THEN @[c]
                                          ELSE Lower(@[c])]]).is_met

\* C16: for one column, one list of expected values and one row in which the
\* column resolves, exactly one of equals and does_not_equal is satisfied, and
\* exactly one of contains and does_not_contain; the case of the expected values
\* does not matter, and a missing cell counts as the empty text.
C16_Complementary ==
    SingleResolved =>
        /\ query.conditions[1].condition_type = "equals"
              => result.is_met # MetAs("does_not_equal")
        /\ query.conditions[1].condition_type = "contains"
              => result.is_met # MetAs("does_not_contain")
        /\ result.is_met = MetInLowerCase
        /\ result.is_met = MetWithLowerCells
        /\ result.is_met = MetWithEmptyCells

\* "Carrier Name equals 'dhl'" held for the shipment of carrier DHL, and
\* "does not equal" does not
C16_Witness ==
    /\ SingleResolved
    /\ query.conditions = <<[column_name |-> "Carrier Name", condition_type |-> "equals",
                             expected_values |-> <<"dhl">>]>>
    /\ query.etof_number = "E1"
    /\ result.is_met
    /\ ~MetAs("does_not_equal")

\* a single clause went through the parser
ClauseParsed(c) ==
    /\ state = "Returned"
    /\ query.op = "parse_applies_if_condition"
    /\ query.applies_if_text = c.text

IsInvoicedText(applies_if_text) ==
    /\ applies_if_text \notin {NaN, None}
    /\ In("applies if invoiced", Lower(applies_if_text))
    /\ In("carrier", Lower(applies_if_text))

\* the conditions its clauses state, whatever its first words
ClauseConditions(applies_if_text) == ParseParts(SplitNumbered(Strip(applies_if_text)))

\* C22 as stated: an "applies if invoiced ... carrier" text parses to the empty
\* list only when it has no comparison word; when it also holds a comparison with
\* quoted values, a "does not equal" or "does not contain" one included, the parser
\* returns that condition and the engine enforces it on the shipment.
C22_InvoicedWithComparison ==
    (state = "Returned" /\ IsInvoicedText(query.applies_if_text)) =>
        /\ query.op = "parse_applies_if_condition" =>
              /\ result = ClauseConditions(query.applies_if_text)
              /\ result = <<>> =>
                    \A word \in {"equal", "start", "contain"} :
                        ~In(word, Lower(query.applies_if_text))
        /\ (query.op = "check_conditions_and_add_reason"
            /\ ClauseConditions(query.applies_if_text) # <<>>
            /\ etof_to_row_data(query.etof_number) # EmptyRow) =>
              result.met = check_applies_if_condition(
                               ClauseConditions(query.applies_if_text), query.etof_number,
                               etof_to_row_data(query.etof_number)).is_met

\* the engine let "... and Origin Country does not contain 'ES'" through for a
\* shipment from ES, although the condition is parsed and not met
C22_Witness ==
    /\ state = "Returned"
    /\ query.op = "check_conditions_and_add_reason"
    /\ query.applies_if_text
          = "Applies if invoiced by Carrier and Origin Country does not contain 'ES'"
    /\ query.etof_number = "E1"
    /\ Len(parse_applies_if_condition(query.applies_if_text)) = 1
    /\ ~check_applies_if_condition(parse_applies_if_condition(query.applies_if_text), "E1",
                                   etof_to_row_data("E1")).is_met
    /\ result.met

\* the key the stated priority names for a column name (0 if none): a synonym
\* first; then the first key that is the name up to case, blanks and underscores;
\* then the first key that contains the name or is contained in it
PriorityColumn(column_name, df_lc_etof_row) ==
    LET cols == df_lc_etof_row.columns
        synonyms == IF column_mappings(Lower(column_name)) # <<>>
                    THEN column_mappings(Lower(column_name))
                    ELSE column_mappings(Underscored(column_name))
        Hit(m) == {c \in 1..Len(cols) : Lower(cols[c]) = Lower(synonyms[m])}
        Hits == {m \in 1..Len(synonyms) : Hit(m) # {}}
        Exact == {c \in 1..Len(cols) : \/ Underscored(cols[c]) = Underscored(column_name)
                                       \/ NoSpace(cols[c]) = NoSpace(column_name)}
        Contained == {c \in 1..Len(cols) : \/ In(Lower(column_name), Lower(cols[c]))
                                           \/ In(Lower(cols[c]), Lower(column_name))}
        Least(S) == CHOOSE x \in S : \A y \in S : x <= y
    IN  IF Hits # {} THEN Least(Hit(Least(Hits)))
        ELSE IF Exact # {} THEN Least(Exact)
        ELSE IF Contained # {} THEN Least(Contained)
        ELSE 0

\* the row with that key alone
RowOfKey(df_lc_etof_row, c) ==
    IF c = 0 THEN [columns |-> <<>>, vals |-> <<>>]
    ELSE [columns |-> <<df_lc_etof_row.columns[c]>>, vals |-> <<df_lc_etof_row.vals[c]>>]

\* C23 as stated: a condition is checked against the cell the priority names --
\* a synonym of the column name first, else a key that is the name up to case,
\* blanks and underscores wherever it stands in the row, and a key that matches by
\* containment only when there is no such key.
C23_ResolutionPriority ==
    (/\ state = "Returned"
     /\ query.op = "check_applies_if_condition"
     /\ Len(query.conditions) = 1) =>
        result = check_applies_if_condition(
                     query.conditions, query.etof_number,
                     RowOfKey(query.df_lc_etof_row,
                              PriorityColumn(query.conditions[1].column_name,
                                             query.df_lc_etof_row)))

\* "Country equals 'ES'" was checked against the row (Origin Country: DE,
\* Country: ES) and read the cell of "Origin Country"
C23_Witness ==
    /\ state = "Returned"
    /\ query.op = "check_applies_if_condition"
    /\ query.conditions = <<[column_name |-> "Country", condition_type |-> "equals",
                             expected_values |-> <<"ES">>]>>
    /\ query.df_lc_etof_row = [columns |-> <<"Origin Country", "Country">>,
                               vals |-> <<"DE", "ES">>]
    /\ result = [is_met |-> FALSE,
                 reason |-> "Applies If not met: Country is 'DE', expected one of ['ES']"]

\* the verdict on condition i alone
Alone(i) ==
    check_applies_if_condition(<<query.conditions[i]>>, query.etof_number,
                               query.df_lc_etof_row)

\* the conditions that do not pass alone
FailingAlone == {i \in 1..Len(query.conditions) : ~Alone(i).is_met}

\* C24: the evaluator is a conjunction that stops at the first failure: it answers
\* satisfied exactly when every condition passes; otherwise its reason is that of
\* the first condition, in list order, that fails or whose column is not found,
\* and the conditions after that one play no part.
C24_ShortCircuitAnd ==
    (state = "Returned" /\ query.op = "check_applies_if_condition") =>
        /\ result.is_met <=> FailingAlone = {}
        /\ result.is_met => result.reason = None
        /\ \A k \in FailingAlone :
              (\A i \in FailingAlone : k <= i) =>
                 /\ result = Alone(k)
                 /\ result = check_applies_if_condition(SubSeq(query.conditions, 1, k),
                                                        query.etof_number,
                                                        query.df_lc_etof_row)

\* three conditions against the shipment of E1: the first and the third fail, the
\* column of the second is not found, and the reason is that of the first
C24_Witness ==
    /\ state = "Returned"
    /\ query.op = "check_applies_if_condition"
    /\ query.applies_if_text
          = "1. Carrier Name equals 'Kuehne' 2. Zone equals 'A' 3. Origin Country equals 'DE'"
    /\ query.df_lc_etof_row = etof_to_row_data("E1")
    /\ FailingAlone = {1, 2, 3}
    /\ result = [is_met |-> FALSE,
                 reason |-> "Applies If not met: Carrier Name is 'DHL', expected one of ['Kuehne']"]

(***************************************************************************)
(* Properties of the accessorial cache                                     *)
(***************************************************************************)
\* C20 as stated: the cache is empty once cleared; the file of an agreement is
\* opened on the first access only, whether the agreement is a key of the files
\* or matches one in part; a file that failed to load is cached as no data and not
\* opened again; and a later access for an agreement hands back what the first did.
C20_LoadedAtMostOnce ==
    /\ (state = "Cleared" /\ result = <<>>) => accessorial_cache = <<>>
    /\ state = "Cleared" =>
          \A j \in 1..Len(result) :
             /\ (result[j].opened # None /\ IsNoneFrame(result[j].df)) =>
                   /\ result[j].opened \in DOMAIN accessorial_cache
                   /\ IsNoneFrame(accessorial_cache[result[j].opened])
             /\ \A i \in 1..(j - 1) :
                   /\ result[i].opened # None => result[j].opened # result[i].opened
                   /\ result[i].agreement = result[j].agreement =>
                         /\ result[j].opened = None
                         /\ result[j].df = result[i].df

\* the sheet of "RA1-2024", which matches the file of RA1 in part, was asked for
\* twice after the clearing, and the file of RA1 was opened both times
C20_Witness ==
    /\ state = "Cleared"
    /\ Len(result) = 2
    /\ result[1] = [agreement |-> "RA1-2024", opened |-> "RA1", df |-> RA1Accessorial]
    /\ result[2] = [agreement |-> "RA1-2024", opened |-> "RA1", df |-> RA1Accessorial]
    /\ accessorial_cache = "RA1" :> RA1Accessorial

(***************************************************************************)
(* Properties of the batch run                                             *)
(***************************************************************************)
\* the Comment cell of row i as the mismatch table holds it
CommentCell(i) == df_mismatch[i][comment_col_mismatch]

InLaterStage == state \in {"ResolveAgreement", "MatchCost", "EvaluateAppliesIf",
                           "BranchOnRateBy"}

outputs == <<rate_by_values, applies_if_values, reasons>>

\* list `after` is list `before` with one value appended
OneAppended(before, after) ==
    /\ Len(after) = Len(before) + 1
    /\ SubSeq(after, 1, Len(before)) = before

\* C2: the three output lists always hold one value for each row before the row at
\* hand; a step either leaves the row and the lists alone or appends exactly one value
\* to each list and moves to the next row; and the run ends, with one Rate By, one
\* Applies If and one Reason per mismatch row.
C2_OnePerRow ==
    /\ [](/\ Len(rate_by_values) = idx - 1
          /\ Len(applies_if_values) = idx - 1
          /\ Len(reasons) = idx - 1
          /\ idx <= Len(df_mismatch) + 1)
    /\ [][\/ UNCHANGED <<idx, outputs>>
          \/ /\ idx' = idx + 1
             /\ OneAppended(rate_by_values, rate_by_values')
             /\ OneAppended(applies_if_values, applies_if_values')
             /\ OneAppended(reasons, reasons')]_vars
    /\ [](state \in Stages)
    /\ <>[](/\ state = "Done"
            /\ Len(rate_by_values) = Len(df_mismatch)
            /\ Len(applies_if_values) = Len(df_mismatch)
            /\ Len(reasons) = Len(df_mismatch))

\* a batch of two rows is done, with two values in each list
C2_Witness ==
    /\ state = "Done"
    /\ Len(df_mismatch) = 2
    /\ Len(rate_by_values) = 2 /\ Len(applies_if_values) = 2 /\ Len(reasons) = 2

\* C3: no exception leaves the loop; every row taken up has a Reason text, and a run
\* that is done has taken up every row.
C3_FailuresBecomeReasons ==
    /\ state # "Raised"
    /\ \A i \in 1..Len(reasons) : reasons[i] # None /\ reasons[i] # ""
    /\ state = "Done" => Len(reasons) = Len(df_mismatch)

\* a row whose price is not a number has that as its Reason, and the row of an unknown
\* agreement after it was processed
C3_Witness ==
    /\ state = "Done"
    /\ Len(df_mismatch) = 2
    /\ reasons[1] = "Cost per unit: abc (could not calculate - invalid price format)"
    /\ reasons[2] = "No rate cost data found for agreement: RA9"

\* the lanes the shipment of the row at hand is annotated with
lanes_of_row == extract_rate_lane(etof_to_comment(etof_number))

\* the Applies If text has no parseable condition, or the shipment row satisfies them
ConditionsHold(applies_if, etof_row_data) ==
    \/ parse_applies_if_condition(applies_if) = <<>>
    \/ /\ etof_row_data # EmptyRow
       /\ check_applies_if_condition(parse_applies_if_condition(applies_if), "check",
                                     etof_row_data).is_met

\* C4 as stated: a row whose cost is resolved, whose conditions hold and whose shipment
\* is annotated with more than one lane ends with the Reason "Multiple rate lanes found
\* (<lanes>) - manual check required", on the rate-card and on the accessorial path.
C4_MultipleLanesFlagged ==
    [][(/\ state = "BranchOnRateBy"
        /\ ConditionsHold(cost.applies_if, etof_to_row_data(etof_number))
        /\ Len(lanes_of_row) > 1)
       => reasons' = Append(reasons, MultipleLanes(lanes_of_row).reason)]_vars

\* on the rate-card path the two lanes of shipment E2 are flagged
C4_Witness ==
    /\ Len(reasons) = 1
    /\ Clean(df_mismatch[1], etof_col_mismatch) = "E2"
    /\ Clean(df_mismatch[1], cost_type_col) = "Pickup Fee"
    /\ reasons[1] = "Multiple rate lanes found (10, 20) - manual check required"

\* C5 as stated: when the Applies If of the resolved cost parses to conditions that the
\* shipment row does not satisfy, the row ends at once with the evaluator's message as
\* Reason.
C5_AppliesIfGates ==
    [][(/\ state = "EvaluateAppliesIf"
        /\ etof_to_row_data(etof_number) # EmptyRow
        /\ ~ConditionsHold(cost.applies_if, etof_to_row_data(etof_number)))
       => /\ idx' = idx + 1
          /\ reasons' = Append(reasons,
                               check_applies_if_condition(
                                   parse_applies_if_condition(cost.applies_if),
                                   etof_number, etof_to_row_data(etof_number)).reason)]_vars

\* the carrier condition of a delivery fee fails for the shipment and ends the row
C5_Witness ==
    /\ Len(reasons) = 1
    /\ Clean(df_mismatch[1], etof_col_mismatch) = "E5"
    /\ Clean(df_mismatch[1], cost_type_col) = "Delivery Fee"
    /\ reasons[1] = "Applies If not met: Carrier Name is 'Kuehne', expected one of ['DHL']"

\* condition k of the list names a column that no key of the row resolves to
Unresolved(conditions, k, etof_row_data) ==
    ResolveColumn(conditions[k].column_name, etof_row_data) = 0

\* C6 as stated: when a parsed condition names a column that resolves to no key of the
\* shipment row, check_applies_if_condition answers not satisfied (with the reason
\* "Column '<name>' not found" when it is the first condition); and the engine,
\* whenever such a column or the whole shipment row is missing while parsed conditions
\* exist, ends the row with that finding and never goes on to the price lookup.
C6_FailClosed ==
    [][(/\ state = "EvaluateAppliesIf"
        /\ parse_applies_if_condition(cost.applies_if) # <<>>
        /\ \/ etof_to_row_data(etof_number) = EmptyRow
           \/ \E k \in 1..Len(parse_applies_if_condition(cost.applies_if)) :
                 Unresolved(parse_applies_if_condition(cost.applies_if), k,
                            etof_to_row_data(etof_number)))
       => LET conditions == parse_applies_if_condition(cost.applies_if)
              etof_row_data == etof_to_row_data(etof_number)
              checked == check_applies_if_condition(conditions, etof_number, etof_row_data)
          IN  /\ ~checked.is_met
              /\ (etof_row_data # EmptyRow /\ Unresolved(conditions, 1, etof_row_data))
                 => StartsWith(checked.reason,
                               "Column '" \o conditions[1].column_name \o "' not found")
              /\ state' # "BranchOnRateBy"
              /\ idx' = idx + 1
              /\ reasons' = Append(reasons,
                                   IF etof_row_data = EmptyRow
                                   THEN "ETOF " \o etof_number
                                        \o " not found in lc_etof_with_comments - cannot verify Applies If conditions"
                                   ELSE checked.reason)]_vars

\* the column Zone of a storage condition is missing from the shipment row
C6_Witness ==
    /\ Len(reasons) = 1
    /\ Clean(df_mismatch[1], cost_type_col) = "Storage"
    /\ reasons[1] = "Column 'Zone' not found in shipment data for ETOF E1"

\* (name, Rate By, Applies If) of every row of a table, as the engine shows them
ShownEntries(df) ==
    IF NoneOrEmpty(df) THEN {}
    ELSE {<<Strip(Get(RowDict(df, r), FirstCol(df.columns, IsCostNameCol), "")),
            Display(Get(RowDict(df, r), FirstCol(df.columns, IsRateByCol), "")),
            Display(Get(RowDict(df, r), FirstCol(df.columns, IsAppliesIfCol), ""))>> :
             r \in 1..Len(df.data)}

\* the cost entries of an agreement: its rate card's conditions and the accessorial sheets
EntriesOf(a) ==
    (IF AgreementData(a) = 0 THEN {}
     ELSE ShownEntries(all_rate_costs[AgreementData(a)].cost_conditions))
    \cup UNION {ShownEntries(all_accessorial_costs[f].sheet) :
                  f \in 1..Len(all_accessorial_costs)}

\* C8 as stated: the Rate By and Applies If of every row, rows that keep their comment
\* included, are empty or those of a cost entry whose name matches the row's cost type
\* under the four name rules.
C8_ShownFromMatchingEntry ==
    \A i \in 1..Len(reasons) :
        (rate_by_values[i] # "" \/ applies_if_values[i] # "")
        => \E e \in EntriesOf(Clean(df_mismatch[i], agreement_col_mismatch)) :
              /\ NameRules(e[1], Clean(df_mismatch[i], cost_type_col))
              /\ e[2] = rate_by_values[i]
              /\ e[3] = applies_if_values[i]

\* a commented row for "Pickup Fee" shows the Rate By and Applies If of that entry
C8_Witness ==
    /\ Len(reasons) = 1
    /\ Clean(df_mismatch[1], cost_type_col) = "Pickup Fee"
    /\ reasons[1] = "checked manually"
    /\ rate_by_values[1] = "PER SHIPMENT"
    /\ applies_if_values[1] = "No condition"

\* the per-unit price lookup of the row at hand, for its single lane
per_unit_lookup ==
    find_cost_price_in_rate_data(
        df_rate_data, lanes_of_row[1], CostNameForLookup(cost, cost_type), "per_unit",
        IF ResolveMultiplier(cost.rate_by, etof_number).is_weight_based
        THEN ResolveMultiplier(cost.rate_by, etof_number).value ELSE None)

\* the lookup took its price from a weight-tiered flat column, for want of a
\* "Price per unit" column
FromFlatTier(price) ==
    /\ price.price # None
    /\ IsTierColumn(price.col)
    /\ In("flat", Lower(price.col))
    /\ ~In("per unit", Lower(price.col))

\* C13 as stated: when the per-unit lookup of a row finds no "Price per unit" column
\* but a weight-tiered flat column, the Reason is "Weight-tiered flat price: <value>
\* ..." and not a "Cost per unit ... Total: p * m", MIN or MAX text.
C13_FlatTierNotMultiplied ==
    [][(/\ state = "BranchOnRateBy"
        /\ ~is_per_shipment
        /\ ~cost.use_accessorial
        /\ Len(lanes_of_row) = 1
        /\ FromFlatTier(per_unit_lookup))
       => /\ Len(reasons') = Len(reasons) + 1
          /\ StartsWith(reasons'[Len(reasons')],
                        "Weight-tiered flat price: " \o per_unit_lookup.price)
          /\ ~In("Total:", reasons'[Len(reasons')])
          /\ ~In("MIN price applied", reasons'[Len(reasons')])
          /\ ~In("MAX price applied", reasons'[Len(reasons')])]_vars

\* the flat tier up to 200 of a cost rated by weight was selected for shipment E1 and
\* its value multiplied by the weight
C13_Witness ==
    /\ Len(reasons) = 1
    /\ Clean(df_mismatch[1], etof_col_mismatch) = "E1"
    /\ Clean(df_mismatch[1], cost_type_col) = "Trucking"
    /\ reasons[1] = "Cost per unit: 90.0 (weight tier: Price Flat <=200), CHARGE_WEIGHT: 120, Total: 90.0 * 120 = 10800.00"


\* the Reason of a row whose cost type was looked up in vain
NotFoundReason(cost_type_name) ==
    "Cost type '" \o cost_type_name \o "' not found in cost conditions"

\* the entries of a table whose name matches the cost type under the name rules
MatchingEntries(df, cost_type_name) == {e \in ShownEntries(df) : NameRules(e[1], cost_type_name)}

\* C19 as stated: a row ends with "Cost type '<c>' not found in cost conditions"
\* only when no entry of its agreement's cost conditions matches the cost name and
\* the agreement's accessorial sheet has no matching entry either; a row whose cost
\* name matches a cost-conditions entry never ends with that Reason.
C19_NotFoundOnlyWhenUnmatched ==
    \A i \in 1..Len(reasons) :
        (/\ Clean(df_mismatch[i], comment_col_mismatch) = ""
         /\ reasons[i] = NotFoundReason(Clean(df_mismatch[i], cost_type_col)))
        => /\ MatchingEntries(
                  all_rate_costs[AgreementData(Clean(df_mismatch[i], agreement_col_mismatch))]
                      .cost_conditions,
                  Clean(df_mismatch[i], cost_type_col)) = {}
           /\ MatchingEntries(
                  get_accessorial_data_for_agreement(
                      Clean(df_mismatch[i], agreement_col_mismatch), <<>>).df,
                  Clean(df_mismatch[i], cost_type_col)) = {}

\* the row for "Insurance", an entry of the cost conditions of RA1 with neither a
\* Rate By nor an Applies If, ended with that Reason
C19_Witness ==
    /\ Len(reasons) >= 1
    /\ Clean(df_mismatch[1], cost_type_col) = "Insurance"
    /\ Clean(df_mismatch[1], agreement_col_mismatch) = "RA1"
    /\ MatchingEntries(RA1CostConditions, "Insurance") # {}
    /\ reasons[1] = NotFoundReason("Insurance")


\* the second run is over
SecondRunDone == state = "Done" /\ query # <<>>

\* C17: check_conditions_and_add_reason run twice over the same table and the same
\* reference data gives the same Rate By, Applies If and Reason columns, whether
\* the accessorial cache was cleared in between or kept.
C17_SameOutputsTwice ==
    (SecondRunDone /\ query.whole) => outputs = result

\* a table with a row priced from the accessorial sheet of RA1 was run twice
\* without clearing the cache: the sheet was read in the first run, taken from the
\* cache in the second
C17_Witness ==
    /\ SecondRunDone
    /\ query.whole
    /\ ~query.cleared
    /\ df_mismatch = << <<"E1", "Cancellation Fee", "RA2", NaN>>, <<"E1", "Waiting", "RA1", NaN>> >>
    /\ "RA1" \in DOMAIN accessorial_cache
    /\ outputs = result
    /\ reasons[2] # NotFoundReason("Waiting")

\* C18: what a row gets in a batch is what it gets when it is run alone -- after
\* the batch with the cache the batch left, or with the cache cleared: its Rate By,
\* Applies If and Reason depend on neither the other rows nor the cache.
C18_RowsIndependent ==
    (SecondRunDone /\ ~query.whole) => outputs = result

\* the second row of a batch, priced from the accessorial sheet of RA1, was run
\* alone with the cache cleared, and got what it had got in the batch
C18_Witness ==
    /\ SecondRunDone
    /\ ~query.whole
    /\ query.cleared
    /\ query.rows = <<2>>
    /\ df_mismatch = << <<"E1", "Waiting", "RA1", NaN>> >>
    /\ DOMAIN accessorial_cache = {"RA1"}
    /\ outputs = result
    /\ reasons[1] # NotFoundReason("Waiting")

\* the columns of the row's rate table that belong to its cost: those after the cost's
\* name column and before the next column that is not a price column
OwnPriceColumns ==
    LET columns_list == df_rate_data.columns
        c == CostColumn(columns_list, CostNameForLookup(cost, cost_type))
    IN  {i \in (c + 1)..Len(columns_list) :
           c # 0 /\ \A j \in (c + 1)..i : StartsWith(columns_list[j], "Price")}

\* the cost's own MIN or MAX on the row's lane when it is a number, None otherwise
OwnLimit(kind) ==
    LET Named == {i \in OwnPriceColumns : In(kind, Lower(df_rate_data.columns[i]))}
        Rows == {r \in 1..Len(df_rate_data.data) :
                   Strip(df_rate_data.data[r][1]) = Strip(lanes_of_row[1])}
        Usable(cell) == IF Numeric(cell) THEN cell ELSE None
    IN  IF Named = {} \/ Rows = {} THEN None
        ELSE Usable(df_rate_data.data[CHOOSE r \in Rows : \A x \in Rows : r <= x]
                                     [CHOOSE i \in Named : \A x \in Named : i <= x])

\* a per-unit price of the rate card is about to be multiplied
PerUnitPriced ==
    /\ state = "BranchOnRateBy"
    /\ ~is_per_shipment
    /\ ~cost.use_accessorial
    /\ Len(lanes_of_row) = 1
    /\ per_unit_lookup.price # None

\* C26: a MIN or MAX the cost does not have, whose cell is empty or whose value is no
\* number counts as no value: the Reason of the row is the one it would have without
\* that MIN or MAX, with the price per unit and the total, and never an error.
C26_MissingLimitIgnored ==
    [][PerUnitPriced
       => /\ Len(reasons') = Len(reasons) + 1
          /\ reasons'[Len(reasons')]
                = ComputeTotal("", per_unit_lookup.price, per_unit_lookup.col,
                               OwnLimit("min"), OwnLimit("max"),
                               ResolveMultiplier(cost.rate_by, etof_number),
                               etof_number).reason]_vars

\* 'Handling' of agreement RA3 has a price per unit and neither MIN nor MAX; for
\* shipment E1 the MIN of the next cost, 'Freight', was applied to its total
C26_Witness ==
    /\ df_mismatch = << <<"E1", "Handling", "RA3", NaN>> >>
    /\ state = "Done"
    /\ reasons = <<"MIN price applied - 400 (Calculated: 2.0 * 120 (CHARGE_WEIGHT) = 240.00, but MIN is higher)">>

\* a cost of the rate card whose Rate By names the shipment is about to be priced
PerShipmentRow ==
    /\ state = "BranchOnRateBy"
    /\ In("shipment", Lower(cost.rate_by))
    /\ ~cost.use_accessorial

\* the flat lookup of the row on its single lane
flat_lookup ==
    find_cost_price_in_rate_data(df_rate_data, lanes_of_row[1],
                                 CostNameForLookup(cost, cost_type), "flat",
                                 etof_to_charge_weight(etof_number))

\* the shipments with the comment and the CHARGE_WEIGHT of the row's shipment
SameLaneAndWeight ==
    {e \in Etofs \cup PerUnitEtofs :
        /\ etof_to_comment(e) = etof_to_comment(etof_number)
        /\ etof_to_charge_weight(e) = etof_to_charge_weight(etof_number)}

\* C27 as stated: for a Rate By that names the shipment, on the rate-card path, the
\* Reason of a row with one lane is "The cost is pre-calculated by rate card -
\* <price> flat." and that of a row with no lane the could-not-extract-lane message.
C27_AsStated ==
    [][PerShipmentRow
       => /\ Len(reasons') = Len(reasons) + 1
          /\ Len(lanes_of_row) = 1
             => reasons'[Len(reasons')]
                   = "The cost is pre-calculated by rate card - " \o flat_lookup.price
                     \o " flat."
          /\ Len(lanes_of_row) = 0
             => reasons'[Len(reasons')]
                   = "Could not extract rate lane from comment: "
                     \o etof_to_comment(etof_number)]_vars

\* C27: for a Rate By that names the shipment, also when it names a weight, the
\* Reason of a rate-card row comes from the comment and the flat lookup alone: no
\* comment, no lane in the comment, or with one lane the flat price (with its weight
\* tier, if any) or else the reason of the lookup; it is the same for every shipment
\* with that comment and CHARGE_WEIGHT, whatever its measurements.
C27_PerShipmentFlat ==
    [][PerShipmentRow
       => /\ Len(reasons') = Len(reasons) + 1
          /\ LET r == reasons'[Len(reasons')]
                 comment == etof_to_comment(etof_number)
                 flat == "The cost is pre-calculated by rate card - " \o flat_lookup.price
                         \o " flat"
             IN  /\ ~Truthy(comment) => r = "No comment found for ETOF " \o etof_number
                 /\ (Truthy(comment) /\ Len(lanes_of_row) = 0)
                    => r = "Could not extract rate lane from comment: " \o comment
                 /\ (Truthy(comment) /\ Len(lanes_of_row) = 1)
                    => /\ (flat_lookup.price # None /\ ~IsTierColumn(flat_lookup.col))
                          => r = flat \o "."
                       /\ (flat_lookup.price # None /\ IsTierColumn(flat_lookup.col))
                          => r = flat \o " (weight tier: " \o flat_lookup.col \o ")."
                       /\ flat_lookup.price = None
                          => (r = flat_lookup.reason /\ r # None)
                 /\ Truthy(comment)
                    => \A e \in SameLaneAndWeight :
                          r = PerShipment(cost, cost_type, e, df_rate_data).reason]_vars

\* 'Pickup Fee' of agreement RA3 is rated 'PER SHIPMENT (chargeable weight)' and has
\* a per-unit price, a MIN and a MAX next to its flat price; shipment E7 has five
\* measurements: the Reason is the flat price of lane 10
C27_Witness ==
    /\ df_mismatch = << <<"E7", "Pickup Fee", "RA3", NaN>> >>
    /\ state = "Done"
    /\ etof_to_measurement("E7")
          = "Condition/Zone 3;Quantity/HAWB;Weight/kg;Quantity/HAWB;Area/ldm"
    /\ reasons = <<"The cost is pre-calculated by rate card - 45.5 flat.">>

\* a cost rated per unit whose price per unit is known is about to be multiplied
PerUnitRow ==
    /\ state = "BranchOnRateBy"
    /\ ~is_per_shipment
    /\ IF cost.use_accessorial THEN cost.accessorial_price_per_unit # None
       ELSE Len(lanes_of_row) = 1 /\ per_unit_lookup.price # None

\* Rate By is weight-based
RatedByWeight ==
    \/ In("weight", Lower(cost.rate_by)) \/ In("kg", Lower(cost.rate_by))
    \/ In("chargeable", Lower(cost.rate_by))

\* the MEASUREMENT entries of the row's shipment that equal, contain or are contained
\* in the cleaned Rate By; with units_too, only those with a UNITS_MEASUREMENT value
\* at their position in lists that are not empty
MatchingMeasurements(units_too) ==
    LET entries == Split(etof_to_measurement(etof_number), ";")
        units == Split(etof_to_units_measurement(etof_number), ";")
        wanted == Lower(RateByClean(cost.rate_by))
        Alike(entry) == entry = wanted \/ In(wanted, entry) \/ In(entry, wanted)
    IN  {k \in 1..Len(entries) :
           /\ Alike(Lower(Strip(entries[k])))
           /\ units_too => /\ k <= Len(units)
                           /\ Truthy(etof_to_measurement(etof_number))
                           /\ Truthy(etof_to_units_measurement(etof_number))}

\* the multiplier the fallback order gives: CHARGE_WEIGHT, else the units of the first
\* matching measurement, else the column named by the keyword of Rate By
MultiplierInOrder(units_too) ==
    LET entries == Split(etof_to_measurement(etof_number), ";")
        units == Split(etof_to_units_measurement(etof_number), ";")
        Matching == MatchingMeasurements(units_too)
        first == CHOOSE k \in Matching : \A x \in Matching : k <= x
        direct == find_value_in_etof_columns(cost.rate_by, etof_to_row_data(etof_number))
        M(name, value) ==
            [name |-> name, value |-> value, not_found |-> None,
             is_weight_based |-> RatedByWeight]
    IN  IF RatedByWeight THEN M("CHARGE_WEIGHT", etof_to_charge_weight(etof_number))
        ELSE IF Matching # {}
        THEN M(Strip(entries[first]),
               IF first <= Len(units) THEN Strip(units[first]) ELSE None)
        ELSE M(direct.name, direct.value)

\* the Reason of a per-unit row for a multiplier: the computation with the MIN and MAX
\* the lookups return, or a text that names what was not found and has no total
ReasonWith(m, r) ==
    IF m.value = None \/ isna(m.value)
    THEN In("not found", r) /\ ~In("Total:", r) /\ ~In("Calculated:", r)
    ELSE IF cost.use_accessorial
    THEN r = ComputeTotal(" (accessorial)", cost.accessorial_price_per_unit, None,
                          IF cost.accessorial_has_min_flat = "True"
                          THEN cost.accessorial_price_flat ELSE None,
                          None, m, etof_number).reason
    ELSE r = ComputeTotal("", per_unit_lookup.price, per_unit_lookup.col,
                          find_cost_price_in_rate_data(
                              df_rate_data, lanes_of_row[1],
                              CostNameForLookup(cost, cost_type), "min", None).price,
                          find_cost_price_in_rate_data(
                              df_rate_data, lanes_of_row[1],
                              CostNameForLookup(cost, cost_type), "max", None).price,
                          m, etof_number).reason

C29_ReasonNonEmpty ==
    /\ state # "Raised"
    /\ Len(reasons) = idx - 1
    /\ \A i \in 1..Len(reasons) : reasons[i] \notin {"", None, NaN}

\* 'Customs' of agreement RA3 is rated by Quantity/HAWB and shipment E3 has no
\* measurements: the branch of the missing multiplier gave the Reason
C29_Witness ==
    /\ df_mismatch = << <<"E3", "Customs", "RA3", NaN>> >>
    /\ state = "Done"
    /\ reasons = <<"Cost per unit: 5.0, but 'hawb' not found in MEASUREMENT column or direct columns for ETOF E3">>

====
